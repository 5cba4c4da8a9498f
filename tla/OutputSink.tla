----------------------------- MODULE OutputSink -----------------------------
(***************************************************************************)
(* FileSystemOutputSink (io/filesystem_output_sink.py): plan, then commit  *)
(* entry by entry, revalidating each entry just before its write.  Several *)
(* sinks, of the same process or of others, and programs that know nothing *)
(* of sinks work on the same destinations.                                 *)
(*                                                                         *)
(* A file is abstracted to its content; hashes are equality of contents.   *)
(* A sink is given by its intents; each carries the policy of the sink it  *)
(* was enqueued to, so that a CompositeOutputSink (io/                     *)
(* composite_output_sink.py), which plans all its children before it       *)
(* commits any, is a sink whose intents carry different policies.          *)
(***************************************************************************)
EXTENDS Integers, Sequences

CONSTANTS Sinks, Paths, Contents,
          Absent,    \* no file at the path
          Other,     \* something at the path that is not a regular file
          AnyHash,   \* expected_existing_hash is None
          Intents,   \* sink -> sequence of intents
          MaxEdits,  \* bound on the changes made by other programs
          MaxRuns    \* bound on the runs of each sink

Intent == [path : Paths, content : Contents, expected : Contents \cup {AnyHash},
           overwrite : BOOLEAN,  \* allow_overwrite
           needHash : BOOLEAN]   \* require_expected_hash_for_replace

ASSUME SinkAssumption ==
    /\ {Absent, Other, AnyHash} \cap Contents = {}
    /\ Absent # Other
    /\ \A s \in Sinks : Intents[s] \in Seq(Intent)
    /\ MaxEdits \in Nat /\ MaxRuns \in Nat \ {0}

VARIABLES disk,     \* path -> content
          phase,    \* sink -> where its run stands
          plan,     \* sink -> planned entries of this run
          results,  \* sink -> results of the entries committed so far
          runs,     \* sink -> number of runs started
          edits     \* changes made by other programs

sinkVars == <<phase, plan, results, runs>>
vars == <<disk, phase, plan, results, runs, edits>>

Phases == {"plan", "commit", "write", "done", "blocked", "dead"}

Init ==
    /\ disk \in [Paths -> Contents \cup {Absent, Other}]
    /\ phase = [s \in Sinks |-> "plan"]
    /\ plan = [s \in Sinks |-> <<>>]
    /\ results = [s \in Sinks |-> <<>>]
    /\ runs = [s \in Sinks |-> 1]
    /\ edits = 0

-----------------------------------------------------------------------------
(* plan                                                                     *)

HashOf(found) == IF found \in Contents THEN found ELSE Absent

\* Broken variant: an existing file is never compared with the artifact.
DecideByPresence(i, found) ==
    CASE found = Absent -> "create"
      [] found # Absent /\ i.overwrite -> "replace"
      [] OTHER -> "refuse"

\* What plan decides for an intent that finds `found` at its destination.
\* Every intent of the repository is required, so a refusal is an issue.
Decide(i, found) ==
    CASE found = i.content -> "skip"
      [] found = Absent -> "create"
      [] found = Other -> "refuse"
      [] found \in Contents \ {i.content} /\ ~ i.overwrite -> "refuse"
      [] found \in Contents \ {i.content} /\ i.overwrite ->
            IF \/ i.needHash /\ i.expected = AnyHash
               \/ i.expected \notin {AnyHash, found}
            THEN "refuse" ELSE "replace"

\* reject_collisions: an earlier intent has the same destination.
Collision(s, n) == \E m \in 1 .. n - 1 : Intents[s][m].path = Intents[s][n].path

PlanEntry(s) ==
    /\ phase[s] = "plan"
    /\ Len(plan[s]) < Len(Intents[s])
    /\ LET n == Len(plan[s]) + 1
           i == Intents[s][n]
           found == disk[i.path]
           action == IF Collision(s, n) THEN "refuse" ELSE Decide(i, found)
       IN  plan' = [plan EXCEPT ![s] = Append(@, [action |-> action, existing |-> HashOf(found)])]
    /\ UNCHANGED <<disk, phase, results, runs, edits>>

\* A plan with an issue is blocked as a whole.
PlanDone(s) ==
    /\ phase[s] = "plan"
    /\ Len(plan[s]) = Len(Intents[s])
    /\ phase' = [phase EXCEPT ![s] =
                    IF \E n \in DOMAIN plan[s] : plan[s][n].action = "refuse"
                    THEN "blocked" ELSE "commit"]
    /\ UNCHANGED <<disk, plan, results, runs, edits>>

-----------------------------------------------------------------------------
(* commit                                                                   *)

Pos(s) == Len(results[s]) + 1
Pending(s) == Pos(s) <= Len(Intents[s])
Current(s) == Intents[s][Pos(s)]
Entry(s) == plan[s][Pos(s)]

\* The status of an entry; "failed" and "ioerror" are both failed in the receipt,
\* with the conflict or the error of the machine as the message.
Statuses == {"written", "skipped", "failed", "ioerror"}
Failed == {"failed", "ioerror"}

Result(s, r) == results' = [results EXCEPT ![s] = Append(@, r)]

\* Unchanged content is not looked at again.
SkipEntry(s) ==
    /\ phase[s] = "commit" /\ Pending(s)
    /\ Entry(s).action = "skip"
    /\ Result(s, "skipped")
    /\ UNCHANGED <<disk, phase, plan, runs, edits>>

\* _revalidate_entry: the destination must be what plan found.
Drifted(s) ==
    LET now == disk[Current(s).path]
    IN  \/ now = Other
        \/ HashOf(now) # Entry(s).existing

Revalidate(s) ==
    /\ phase[s] = "commit" /\ Pending(s)
    /\ Entry(s).action # "skip"
    /\ IF Drifted(s)
         THEN Result(s, "failed") /\ UNCHANGED phase
         ELSE phase' = [phase EXCEPT ![s] = "write"] /\ UNCHANGED results
    /\ UNCHANGED <<disk, plan, runs, edits>>

\* Broken variant: a create renames over the destination.
CanLandByRename(s) == disk[Current(s).path] # Other

\* _atomic_write puts a complete temporary file in place: a create links it,
\* which fails when the name exists; a replace renames it over any file.
CanLand(s) ==
    IF Entry(s).action = "create" THEN disk[Current(s).path] = Absent
                                  ELSE disk[Current(s).path] # Other

Land(s) == disk' = [disk EXCEPT ![Current(s).path] = Current(s).content]

\* Broken variant: a link that fails because the name exists counts as written.
WriteEntryAnyway(s) ==
    /\ phase[s] = "write"
    /\ IF CanLand(s) THEN Land(s) ELSE UNCHANGED disk
    /\ Result(s, "written")
    /\ phase' = [phase EXCEPT ![s] = "commit"]
    /\ UNCHANGED <<plan, runs, edits>>

\* Every OSError of _atomic_write makes a failed entry: the name that exists,
\* or an error of the machine (mkdir, write, fsync, no space, no permission),
\* which comes before anything is in place or, when the temporary file of a
\* create cannot be removed, after it.
WriteEntry(s) ==
    /\ phase[s] = "write"
    /\ \/ CanLand(s) /\ Land(s) /\ Result(s, "written")
       \/ ~ CanLand(s) /\ UNCHANGED disk /\ Result(s, "failed")
       \/ UNCHANGED disk /\ Result(s, "ioerror")
       \/ Entry(s).action = "create" /\ CanLand(s) /\ Land(s) /\ Result(s, "ioerror")
    /\ phase' = [phase EXCEPT ![s] = "commit"]
    /\ UNCHANGED <<plan, runs, edits>>

\* make_commit_receipt
CommitDone(s) ==
    /\ phase[s] = "commit" /\ ~ Pending(s)
    /\ phase' = [phase EXCEPT ![s] = "done"]
    /\ UNCHANGED <<disk, plan, results, runs, edits>>

-----------------------------------------------------------------------------
(* Crashes, reruns, and the rest of the machine.                            *)

\* The process dies, or an exception ends its commit (an OSError while plan or
\* _revalidate_entry reads is not caught).  A temporary file may stay behind; no destination is
\* torn, because none is written in place.
Crash(s) ==
    /\ phase[s] \in {"plan", "commit", "write"}
    /\ runs[s] < MaxRuns
    /\ phase' = [phase EXCEPT ![s] = "dead"]
    /\ UNCHANGED <<disk, plan, results, runs, edits>>

\* Broken variant: the results of the earlier run are not cleared.
RerunWithOldResults(s) ==
    /\ phase[s] = "dead"
    /\ runs[s] < MaxRuns
    /\ runs' = [runs EXCEPT ![s] = @ + 1]
    /\ phase' = [phase EXCEPT ![s] = "plan"]
    /\ plan' = [plan EXCEPT ![s] = <<>>]
    /\ UNCHANGED <<disk, results, edits>>

\* The command is run again, with a new sink and the same intents.
Rerun(s) ==
    /\ \/ phase[s] \in {"dead", "blocked"}
       \/ phase[s] = "done" /\ \E n \in DOMAIN results[s] : results[s][n] \in Failed
    /\ runs[s] < MaxRuns
    /\ runs' = [runs EXCEPT ![s] = @ + 1]
    /\ phase' = [phase EXCEPT ![s] = "plan"]
    /\ plan' = [plan EXCEPT ![s] = <<>>]
    /\ results' = [results EXCEPT ![s] = <<>>]
    /\ UNCHANGED <<disk, edits>>

\* Another program creates, changes or removes a file.
Edit(p) ==
    /\ edits < MaxEdits
    /\ edits' = edits + 1
    /\ \E c \in Contents \cup {Absent, Other} : disk' = [disk EXCEPT ![p] = c]
    /\ UNCHANGED sinkVars

Commit(s) == SkipEntry(s) \/ Revalidate(s) \/ WriteEntry(s) \/ CommitDone(s)
Run(s) == PlanEntry(s) \/ PlanDone(s) \/ Commit(s) \/ Rerun(s)

Next == (\E s \in Sinks : Run(s) \/ Crash(s)) \/ (\E p \in Paths : Edit(p))

Spec == Init /\ [][Next]_vars

-----------------------------------------------------------------------------
(* Properties.                                                              *)

\* Every variable has its type.
SinkTypeOK ==
    /\ disk \in [Paths -> Contents \cup {Absent, Other}]
    /\ phase \in [Sinks -> Phases]
    /\ \A s \in Sinks :
          /\ Len(plan[s]) <= Len(Intents[s])
          /\ \A n \in DOMAIN plan[s] :
                plan[s][n] \in [action : {"skip", "create", "replace", "refuse"},
                                existing : Contents \cup {Absent}]
          /\ Len(results[s]) <= Len(plan[s])
          /\ \A n \in DOMAIN results[s] : results[s][n] \in Statuses
    /\ runs \in [Sinks -> 0 .. MaxRuns]
    /\ edits \in 0 .. MaxEdits

\* Destinations that no sink has leave to overwrite.
Protected == {p \in Paths : \A s \in Sinks : \A n \in DOMAIN Intents[s] :
                 Intents[s][n].path = p => ~ Intents[s][n].overwrite}

\* With allow_overwrite=False nothing a sink does changes a file that exists,
\* however its plan is interleaved with the writes of others.
NeverClobbers ==
    [][edits' = edits =>
          \A p \in Protected : disk[p] # Absent => disk'[p] = disk[p]]_vars

Passed(s) == phase[s] = "done" /\ \A n \in DOMAIN results[s] : results[s][n] \notin Failed

\* As long as only sinks have touched the directory, a receipt that says
\* passed is true of every protected destination: also of those that were
\* skipped without a second look, and of those another sink was after.
PassedIsOnDisk ==
    edits = 0 =>
        \A s \in Sinks : Passed(s) =>
            \A n \in DOMAIN Intents[s] :
                Intents[s][n].path \in Protected =>
                    disk[Intents[s][n].path] = Intents[s][n].content

\* A commit that was cut short, or that failed with an error of the machine,
\* goes on where it stopped: no rerun sees a conflict, in the plan or in the
\* commit, in an entry whose destination nothing else is to be written to and
\* that an earlier run may have written, also one that was reported as failed.
Sole(s, n) == \A r \in Sinks : \A m \in DOMAIN Intents[r] :
                 Intents[r][m].path = Intents[s][n].path => r = s /\ m = n
ResumesItsOwnWork ==
    edits = 0 =>
        \A s \in Sinks : \A n \in DOMAIN plan[s] :
            LET i == Intents[s][n]
            IN  Sole(s, n) /\ i.path \in Protected /\ disk[i.path] \in {Absent, i.content}
                    => /\ plan[s][n].action # "refuse"
                       /\ n \in DOMAIN results[s] => results[s][n] # "failed"
=============================================================================
