------------------------- MODULE OutputSinkProofs -------------------------
(***************************************************************************)
(* What the file sink promises about destinations nobody may overwrite,    *)
(* for any sinks, intents and contents, any number of runs, and any        *)
(* changes other programs make.                                            *)
(***************************************************************************)
EXTENDS OutputSink, TLAPS

PlanEntries == [action : {"skip", "create", "replace", "refuse"}, existing : Contents \cup {Absent}]
Outcomes == Statuses

\* The types of the variables, with the sequences as values.
SinkTyped ==
    /\ disk \in [Paths -> Contents \cup {Absent, Other}]
    /\ phase \in [Sinks -> Phases]
    /\ plan \in [Sinks -> Seq(PlanEntries)]
    /\ results \in [Sinks -> Seq(Outcomes)]
    /\ runs \in [Sinks -> 0 .. MaxRuns]
    /\ edits \in 0 .. MaxEdits

\* Where a run stands against its plan, and the plan against the intents: a
\* commit has a complete plan without refusals, a replacement is planned only
\* where it is allowed, and a write is under way only for an entry that is to
\* be written.
PlanFollowed(s) ==
    /\ Len(plan[s]) <= Len(Intents[s])
    /\ Len(results[s]) <= Len(plan[s])
    /\ \A n \in DOMAIN plan[s] : plan[s][n].action = "replace" => Intents[s][n].overwrite
    /\ phase[s] \in {"plan", "blocked"} => results[s] = <<>>
    /\ phase[s] \in {"commit", "write", "done"} =>
         /\ Len(plan[s]) = Len(Intents[s])
         /\ \A n \in DOMAIN plan[s] : plan[s][n].action # "refuse"
    /\ phase[s] = "write" => Pending(s) /\ Entry(s).action \in {"create", "replace"}
    /\ phase[s] = "done" => Len(results[s]) = Len(Intents[s])

\* What a plan and the results say of a protected destination is still true.
SaysWhatIsThere(s) ==
    /\ \A n \in DOMAIN plan[s] :
         Intents[s][n].path \in Protected /\ plan[s][n].action = "skip" =>
             disk[Intents[s][n].path] = Intents[s][n].content
    /\ \A n \in DOMAIN results[s] :
         /\ Intents[s][n].path \in Protected /\ results[s][n] = "written" =>
                disk[Intents[s][n].path] = Intents[s][n].content
         /\ results[s][n] = "skipped" => plan[s][n].action = "skip"

\* The inductive invariant.
SinkInv ==
    /\ SinkTyped
    /\ \A s \in Sinks : PlanFollowed(s)
    /\ edits = 0 => \A s \in Sinks : SaysWhatIsThere(s)

-----------------------------------------------------------------------------
(* Lemmas.                                                                  *)

\* An intent of a sink has a destination and a content (WriteIntent).
LEMMA IntentTyped ==
    ASSUME NEW s \in Sinks, NEW n \in DOMAIN Intents[s]
    PROVE  Intents[s][n] \in Intent
  BY SinkAssumption

\* Appending to a sequence keeps what is there (the results and the plan).
LEMMA AppendKeeps ==
    ASSUME NEW S, NEW q \in Seq(S), NEW e \in S
    PROVE  /\ Append(q, e) \in Seq(S)
           /\ Len(Append(q, e)) = Len(q) + 1
           /\ Append(q, e)[Len(q) + 1] = e
           /\ \A n \in DOMAIN q : n \in DOMAIN Append(q, e) /\ Append(q, e)[n] = q[n]
           /\ \A n \in DOMAIN Append(q, e) : n \in DOMAIN q \/ n = Len(q) + 1
  OBVIOUS

\* _atomic_write links a new file and renames only over what may be
\* overwritten: what is at a protected destination stays.
LEMMA WriteKeepsProtected ==
    ASSUME SinkInv, NEW s \in Sinks, WriteEntry(s), NEW p \in Protected, disk[p] # Absent
    PROVE  disk'[p] = disk[p]
<1> USE DEF SinkInv, SinkTyped
<1>1. PlanFollowed(s) /\ phase[s] = "write"
  BY DEF WriteEntry
<1>2. /\ Pos(s) \in DOMAIN Intents[s] /\ Pos(s) \in DOMAIN plan[s]
      /\ Entry(s).action \in {"create", "replace"}
  BY <1>1, SinkAssumption DEF PlanFollowed, Pending, Pos
<1>3. CASE Entry(s).action = "create"
  BY <1>3 DEF WriteEntry, CanLand, Land, Protected
<1>4. CASE Entry(s).action = "replace"
  <2>1. Intents[s][Pos(s)].overwrite
    BY <1>1, <1>2, <1>4 DEF PlanFollowed, Entry
  <2>2. Current(s).path # p
    BY <1>2, <2>1 DEF Protected, Current
  <2> QED
    BY <2>2 DEF WriteEntry, Land, Protected
<1> QED
  BY <1>2, <1>3, <1>4

-----------------------------------------------------------------------------
(* The invariant.                                                           *)

LEMMA SinkInit == Init => SinkInv
<1> SUFFICES ASSUME Init PROVE SinkInv
  OBVIOUS
<1>1. SinkTyped
  BY SinkAssumption DEF Init, SinkTyped, Phases
<1>2. ASSUME NEW s \in Sinks PROVE PlanFollowed(s) /\ SaysWhatIsThere(s)
  BY SinkAssumption DEF Init, PlanFollowed, SaysWhatIsThere
<1> QED
  BY <1>1, <1>2 DEF SinkInv

\* plan() decides entry by entry; what it calls unchanged is there.
LEMMA PlanEntryStep ==
    ASSUME SinkInv, NEW s \in Sinks, PlanEntry(s)
    PROVE  SinkInv'
<1> DEFINE n == Len(plan[s]) + 1
           i == Intents[s][n]
           action == IF Collision(s, n) THEN "refuse" ELSE Decide(i, disk[i.path])
           e == [action |-> action, existing |-> HashOf(disk[i.path])]
<1>1. /\ plan' = [plan EXCEPT ![s] = Append(@, e)]
      /\ phase[s] = "plan" /\ Len(plan[s]) < Len(Intents[s])
      /\ UNCHANGED <<disk, phase, results, runs, edits>>
  BY DEF PlanEntry
<1>2. SinkTyped /\ PlanFollowed(s)
  BY DEF SinkInv
<1>3. plan[s] \in Seq(PlanEntries) /\ n \in DOMAIN Intents[s]
  BY <1>1, <1>2, SinkAssumption DEF SinkTyped
<1>4. i \in Intent /\ disk[i.path] \in Contents \cup {Absent, Other}
  BY <1>2, <1>3, IntentTyped DEF SinkTyped, Intent
<1>5. /\ action \in {"skip", "create", "replace", "refuse"}
      /\ action = "replace" => i.overwrite
      /\ action = "skip" => disk[i.path] = i.content
  BY <1>4, SinkAssumption DEF Decide, Intent
<1>6. HashOf(disk[i.path]) \in Contents \cup {Absent}
  BY DEF HashOf
<1> HIDE DEF action
<1>7. e \in PlanEntries
  BY <1>5, <1>6 DEF PlanEntries
<1>8. /\ e.action = "replace" => Intents[s][n].overwrite
      /\ e.action = "skip" => disk[Intents[s][n].path] = Intents[s][n].content
  BY <1>5
<1> HIDE DEF e, i
<1>9. /\ plan' \in [Sinks -> Seq(PlanEntries)]
      /\ plan'[s] = Append(plan[s], e)
      /\ \A r \in Sinks \ {s} : plan'[r] = plan[r]
  BY <1>1, <1>2, <1>3, <1>7, AppendKeeps DEF SinkTyped
<1>10. /\ Len(plan'[s]) = n
       /\ plan'[s][n] = e
       /\ \A m \in DOMAIN plan[s] : m \in DOMAIN plan'[s] /\ plan'[s][m] = plan[s][m]
       /\ \A m \in DOMAIN plan'[s] : m \in DOMAIN plan[s] \/ m = n
  BY <1>3, <1>7, <1>9, AppendKeeps
<1>11. SinkTyped'
  BY <1>1, <1>2, <1>9 DEF SinkTyped
<1>12. PlanFollowed(s)'
  BY <1>1, <1>2, <1>3, <1>8, <1>10, SinkAssumption DEF PlanFollowed
<1>13. ASSUME NEW r \in Sinks \ {s} PROVE PlanFollowed(r)'
  BY <1>1, <1>9 DEF SinkInv, PlanFollowed, Pending, Pos, Entry
<1>14. ASSUME edits = 0 PROVE SaysWhatIsThere(s)'
  <2>1. SaysWhatIsThere(s) /\ results[s] = <<>>
    BY <1>1, <1>2, <1>14 DEF SinkInv, PlanFollowed
  <2> QED
    BY <1>1, <1>8, <1>10, <2>1 DEF SaysWhatIsThere
<1>15. ASSUME edits = 0, NEW r \in Sinks \ {s} PROVE SaysWhatIsThere(r)'
  BY <1>1, <1>9, <1>15 DEF SinkInv, SaysWhatIsThere
<1> QED
  BY <1>1, <1>11, <1>12, <1>13, <1>14, <1>15 DEF SinkInv

\* A result is appended to the results of one sink, for an entry that it is
\* true of; every other sink finds its destinations as it left them.
LEMMA ResultStep ==
    ASSUME SinkInv, NEW s \in Sinks, NEW outcome \in Outcomes, Result(s, outcome),
           phase[s] \in {"commit", "write"}, Pending(s),
           phase' = [phase EXCEPT ![s] = "commit"],
           disk' \in [Paths -> Contents \cup {Absent, Other}],
           \A p \in Protected : disk[p] # Absent => disk'[p] = disk[p],
           outcome = "written" => disk'[Current(s).path] = Current(s).content,
           outcome = "skipped" => Entry(s).action = "skip",
           UNCHANGED <<plan, runs, edits>>
    PROVE  SinkInv'
<1> DEFINE n == Pos(s)
<1>1. SinkTyped /\ PlanFollowed(s)
  BY DEF SinkInv
<1>2. /\ results[s] \in Seq(Outcomes) /\ plan[s] \in Seq(PlanEntries)
      /\ Intents[s] \in Seq(Intent)
      /\ n = Len(results[s]) + 1 /\ n \in DOMAIN Intents[s] /\ n \in DOMAIN plan[s]
      /\ Len(plan[s]) = Len(Intents[s])
  BY <1>1, SinkAssumption DEF SinkTyped, PlanFollowed, Pending, Pos
<1>3. /\ results' \in [Sinks -> Seq(Outcomes)]
      /\ results'[s] = Append(results[s], outcome)
      /\ \A r \in Sinks \ {s} : results'[r] = results[r]
  BY <1>1, <1>2, AppendKeeps DEF Result, SinkTyped
<1> HIDE DEF n
<1>4. /\ Len(results'[s]) = n
      /\ results'[s][n] = outcome
      /\ \A m \in DOMAIN results[s] : results'[s][m] = results[s][m]
      /\ \A m \in DOMAIN results'[s] : m \in DOMAIN results[s] \/ m = n
  BY <1>2, <1>3, AppendKeeps
<1>5. phase' \in [Sinks -> Phases] /\ phase'[s] = "commit" /\ \A r \in Sinks \ {s} : phase'[r] = phase[r]
  BY <1>1 DEF SinkTyped, Phases
<1>6. SinkTyped'
  BY <1>1, <1>3, <1>5 DEF SinkTyped
<1>7. PlanFollowed(s)'
  BY <1>1, <1>2, <1>4, <1>5 DEF PlanFollowed
<1>8. ASSUME NEW r \in Sinks \ {s} PROVE PlanFollowed(r)'
  BY <1>3, <1>5 DEF SinkInv, PlanFollowed, Pending, Pos, Entry
<1>9. ASSUME edits = 0, NEW r \in Sinks, NEW m \in DOMAIN Intents[r],
             Intents[r][m].path \in Protected, disk[Intents[r][m].path] = Intents[r][m].content
      PROVE  disk'[Intents[r][m].path] = Intents[r][m].content
  BY <1>9, IntentTyped, SinkAssumption DEF Intent
<1>10. ASSUME NEW r \in Sinks, NEW m \in DOMAIN plan[r] PROVE m \in DOMAIN Intents[r]
  <2>1. PlanFollowed(r) /\ plan[r] \in Seq(PlanEntries) /\ Intents[r] \in Seq(Intent)
    BY SinkAssumption DEF SinkInv, SinkTyped
  <2> QED
    BY <2>1 DEF PlanFollowed
<1>11. ASSUME NEW r \in Sinks, NEW m \in DOMAIN results[r] PROVE m \in DOMAIN plan[r]
  <2>1. PlanFollowed(r) /\ plan[r] \in Seq(PlanEntries) /\ results[r] \in Seq(Outcomes)
    BY DEF SinkInv, SinkTyped
  <2> QED
    BY <2>1 DEF PlanFollowed
<1>12. ASSUME edits = 0, NEW r \in Sinks PROVE SaysWhatIsThere(r)'
  <2>1. SaysWhatIsThere(r)
    BY <1>12 DEF SinkInv
  <2>2. ASSUME NEW m \in DOMAIN plan[r], Intents[r][m].path \in Protected, plan[r][m].action = "skip"
        PROVE  disk'[Intents[r][m].path] = Intents[r][m].content
    BY <1>9, <1>10, <1>12, <2>1, <2>2 DEF SaysWhatIsThere
  <2>3. ASSUME NEW m \in DOMAIN results[r]
        PROVE  /\ Intents[r][m].path \in Protected /\ results[r][m] = "written" =>
                      disk'[Intents[r][m].path] = Intents[r][m].content
               /\ results[r][m] = "skipped" => plan[r][m].action = "skip"
    BY <1>9, <1>10, <1>11, <1>12, <2>1, <2>3 DEF SaysWhatIsThere
  <2>4. CASE r = s
    <3>1. results'[s][n] = "written" => disk'[Intents[s][n].path] = Intents[s][n].content
      BY <1>4 DEF Current, n
    <3>2. results'[s][n] = "skipped" => plan[s][n].action = "skip"
      BY <1>4 DEF Entry, n
    <3> QED
      BY <1>4, <2>2, <2>3, <2>4, <3>1, <3>2 DEF SaysWhatIsThere
  <2>5. CASE r # s
    BY <1>3, <2>2, <2>3, <2>5 DEF SaysWhatIsThere
  <2> QED
    BY <2>4, <2>5
<1> QED
  BY <1>6, <1>7, <1>8, <1>12 DEF SinkInv

\* A step that changes no plan, result or file only has to keep each run in
\* step with its plan.
LEMMA PhaseStep ==
    ASSUME SinkInv, NEW s \in Sinks, NEW p \in Phases, phase' = [phase EXCEPT ![s] = p],
           UNCHANGED <<disk, plan, results, runs, edits>>, PlanFollowed(s)'
    PROVE  SinkInv'
<1>1. phase' \in [Sinks -> Phases] /\ \A r \in Sinks \ {s} : phase'[r] = phase[r]
  BY DEF SinkInv, SinkTyped
<1>2. SinkTyped'
  BY <1>1 DEF SinkInv, SinkTyped
<1>3. ASSUME NEW r \in Sinks \ {s} PROVE PlanFollowed(r)'
  BY <1>1 DEF SinkInv, PlanFollowed, Pending, Pos, Entry
<1>4. edits = 0 => \A r \in Sinks : SaysWhatIsThere(r)'
  BY DEF SinkInv, SaysWhatIsThere
<1> QED
  BY <1>2, <1>3, <1>4 DEF SinkInv

\* Every step of a sink, of its death and of other programs.
LEMMA SinkStep == SinkInv /\ [Next]_vars => SinkInv'
<1> SUFFICES ASSUME SinkInv, [Next]_vars PROVE SinkInv'
  OBVIOUS
<1>1. ASSUME NEW s \in Sinks, PlanEntry(s) PROVE SinkInv'
  BY <1>1, PlanEntryStep
<1>2. ASSUME NEW s \in Sinks, PlanDone(s) PROVE SinkInv'
  <2>1. PICK p \in {"blocked", "commit"} :
          /\ phase' = [phase EXCEPT ![s] = p]
          /\ p = "commit" => \A n \in DOMAIN plan[s] : plan[s][n].action # "refuse"
    BY <1>2 DEF PlanDone
  <2>2. phase'[s] = p /\ p \in Phases
    BY <2>1 DEF SinkInv, SinkTyped, Phases
  <2>3. PlanFollowed(s)'
    BY <1>2, <2>1, <2>2 DEF PlanDone, SinkInv, PlanFollowed
  <2> QED
    BY <1>2, <2>1, <2>2, <2>3, PhaseStep DEF PlanDone
<1>3. ASSUME NEW s \in Sinks, SkipEntry(s) PROVE SinkInv'
  <2>1. phase' = [phase EXCEPT ![s] = "commit"]
    BY <1>3 DEF SkipEntry, SinkInv, SinkTyped
  <2> QED
    BY <1>3, <2>1, ResultStep DEF SkipEntry, Outcomes, Statuses, SinkInv, SinkTyped
<1>4. ASSUME NEW s \in Sinks, Revalidate(s) PROVE SinkInv'
  <2>1. CASE Drifted(s)
    <3>1. phase' = [phase EXCEPT ![s] = "commit"] /\ Result(s, "failed")
      BY <1>4, <2>1 DEF Revalidate, SinkInv, SinkTyped
    <3> QED
      BY <1>4, <3>1, ResultStep DEF Revalidate, Outcomes, Statuses, SinkInv, SinkTyped
  <2>2. CASE ~ Drifted(s)
    <3>1. phase' = [phase EXCEPT ![s] = "write"] /\ "write" \in Phases
      BY <1>4, <2>2 DEF Revalidate, Phases
    <3>2. PlanFollowed(s) /\ plan[s] \in Seq(PlanEntries) /\ Pos(s) \in DOMAIN plan[s]
      BY <1>4, SinkAssumption DEF Revalidate, SinkInv, SinkTyped, PlanFollowed, Pending, Pos
    <3>3. Entry(s) \in PlanEntries /\ Entry(s).action \notin {"skip", "refuse"}
      BY <1>4, <3>2 DEF Revalidate, PlanFollowed, Entry
    <3>4. Entry(s).action \in {"create", "replace"}
      BY <3>3 DEF PlanEntries
    <3>5. PlanFollowed(s)'
      BY <1>4, <3>1, <3>2, <3>4 DEF Revalidate, SinkInv, SinkTyped, PlanFollowed, Pending, Pos, Entry
    <3> QED
      BY <1>4, <3>1, <3>5, <2>2, PhaseStep DEF Revalidate
  <2> QED
    BY <2>1, <2>2
<1>5. ASSUME NEW s \in Sinks, WriteEntry(s) PROVE SinkInv'
  <2>1. \A p \in Protected : disk[p] # Absent => disk'[p] = disk[p]
    BY <1>5, WriteKeepsProtected
  <2>2. PlanFollowed(s) /\ phase[s] = "write" /\ Pending(s)
    BY <1>5 DEF WriteEntry, SinkInv, PlanFollowed
  <2>3. Current(s) \in Intent
    BY <2>2, IntentTyped, SinkAssumption DEF SinkInv, SinkTyped, Pending, Pos, Current
  <2>4. ASSUME Land(s)
        PROVE  /\ disk' \in [Paths -> Contents \cup {Absent, Other}]
               /\ disk'[Current(s).path] = Current(s).content
    BY <2>3, <2>4 DEF Land, Intent, SinkInv, SinkTyped
  <2>5. ASSUME NEW outcome \in Outcomes, outcome # "skipped", Result(s, outcome),
               Land(s) \/ (outcome # "written" /\ UNCHANGED disk)
        PROVE  SinkInv'
    <3>1. /\ disk' \in [Paths -> Contents \cup {Absent, Other}]
          /\ outcome = "written" => disk'[Current(s).path] = Current(s).content
      BY <2>4, <2>5 DEF SinkInv, SinkTyped
    <3>2. phase' = [phase EXCEPT ![s] = "commit"] /\ UNCHANGED <<plan, runs, edits>>
      BY <1>5 DEF WriteEntry
    <3> QED
      BY <2>1, <2>2, <2>5, <3>1, <3>2, ResultStep
  <2>6. PICK outcome \in Outcomes :
          /\ outcome # "skipped" /\ Result(s, outcome)
          /\ Land(s) \/ (outcome # "written" /\ UNCHANGED disk)
    <3>1. {"written", "failed", "ioerror"} \subseteq Outcomes
      BY DEF Outcomes, Statuses
    <3> QED
      BY <1>5, <3>1 DEF WriteEntry
  <2> QED
    BY <2>5, <2>6
<1>6. ASSUME NEW s \in Sinks, CommitDone(s) PROVE SinkInv'
  <2>1. phase' = [phase EXCEPT ![s] = "done"] /\ phase'[s] = "done" /\ "done" \in Phases
    BY <1>6 DEF CommitDone, Phases, SinkInv, SinkTyped
  <2>2. Len(results[s]) \in Nat /\ Len(plan[s]) \in Nat /\ Len(Intents[s]) \in Nat
    BY SinkAssumption DEF SinkInv, SinkTyped
  <2>3. Len(results[s]) = Len(Intents[s])
    BY <1>6, <2>2 DEF CommitDone, SinkInv, PlanFollowed, Pending, Pos
  <2>4. PlanFollowed(s)'
    BY <1>6, <2>1, <2>3 DEF CommitDone, SinkInv, PlanFollowed
  <2> QED
    BY <1>6, <2>1, <2>4, PhaseStep DEF CommitDone
<1>7. ASSUME NEW s \in Sinks, Crash(s) PROVE SinkInv'
  <2>1. phase' = [phase EXCEPT ![s] = "dead"] /\ phase'[s] = "dead" /\ "dead" \in Phases
    BY <1>7 DEF Crash, Phases, SinkInv, SinkTyped
  <2>2. PlanFollowed(s)'
    BY <1>7, <2>1 DEF Crash, SinkInv, PlanFollowed
  <2> QED
    BY <1>7, <2>1, <2>2, PhaseStep DEF Crash
<1>8. ASSUME NEW s \in Sinks, Rerun(s) PROVE SinkInv'
  <2>1. /\ phase' = [phase EXCEPT ![s] = "plan"] /\ plan' = [plan EXCEPT ![s] = <<>>]
        /\ results' = [results EXCEPT ![s] = <<>>] /\ runs' = [runs EXCEPT ![s] = @ + 1]
        /\ runs[s] < MaxRuns /\ UNCHANGED <<disk, edits>>
    BY <1>8 DEF Rerun
  <2>2. SinkTyped'
    BY <2>1, SinkAssumption DEF SinkInv, SinkTyped, Phases
  <2>3. plan'[s] = <<>> /\ results'[s] = <<>> /\ phase'[s] = "plan"
    BY <2>1 DEF SinkInv, SinkTyped
  <2>4. PlanFollowed(s)' /\ SaysWhatIsThere(s)'
    BY <2>3, SinkAssumption DEF PlanFollowed, SaysWhatIsThere
  <2>5. ASSUME NEW r \in Sinks \ {s} PROVE PlanFollowed(r)' /\ (edits = 0 => SaysWhatIsThere(r)')
    <3>1. plan'[r] = plan[r] /\ results'[r] = results[r] /\ phase'[r] = phase[r]
      BY <2>1 DEF SinkInv, SinkTyped
    <3> QED
      BY <2>1, <3>1 DEF SinkInv, PlanFollowed, SaysWhatIsThere, Pending, Pos, Entry
  <2> QED
    BY <2>1, <2>2, <2>4, <2>5 DEF SinkInv
<1>9. ASSUME NEW p \in Paths, Edit(p) PROVE SinkInv'
  <2>1. edits' # 0
    BY <1>9 DEF Edit, SinkInv, SinkTyped
  <2>2. SinkTyped'
    BY <1>9, SinkAssumption DEF Edit, sinkVars, SinkInv, SinkTyped
  <2>3. ASSUME NEW s \in Sinks PROVE PlanFollowed(s)'
    BY <1>9 DEF Edit, sinkVars, SinkInv, PlanFollowed, Pending, Pos, Entry
  <2> QED
    BY <2>1, <2>2, <2>3 DEF SinkInv
<1>10. CASE UNCHANGED vars
  BY <1>10 DEF vars, SinkInv, SinkTyped, PlanFollowed, SaysWhatIsThere, Pending, Pos, Entry
<1> QED
  BY <1>1, <1>2, <1>3, <1>4, <1>5, <1>6, <1>7, <1>8, <1>9, <1>10 DEF Next, Run, Commit

-----------------------------------------------------------------------------
(* Theorems.                                                                *)

\* The invariant of plan and commit under rival sinks, deaths and edits.
THEOREM SinkInvariant == Spec => []SinkInv
  BY SinkInit, SinkStep, PTL DEF Spec

\* Every variable keeps its type, the results within the plan and the plan
\* within the intents.
THEOREM SinkTypeCorrect == Spec => []SinkTypeOK
<1>1. SinkInv => SinkTypeOK
  <2> SUFFICES ASSUME SinkInv PROVE SinkTypeOK
    OBVIOUS
  <2>1. ASSUME NEW s \in Sinks
        PROVE  /\ \A n \in DOMAIN plan[s] : plan[s][n] \in PlanEntries
               /\ \A n \in DOMAIN results[s] : results[s][n] \in Outcomes
    <3>1. plan[s] \in Seq(PlanEntries) /\ results[s] \in Seq(Outcomes)
      BY DEF SinkInv, SinkTyped
    <3> QED
      BY <3>1
  <2> QED
    BY <2>1 DEF SinkInv, SinkTyped, SinkTypeOK, PlanFollowed, PlanEntries, Outcomes
<1> QED
  BY <1>1, SinkInvariant, PTL

\* Nothing a sink without allow_overwrite does changes a file that exists,
\* whatever other sinks and programs do between its plan and its writes.
THEOREM SinkNeverClobbers == Spec => NeverClobbers
<1>1. SinkInv /\ [Next]_vars =>
        (edits' = edits => \A p \in Protected : disk[p] # Absent => disk'[p] = disk[p])
  <2> SUFFICES ASSUME SinkInv, [Next]_vars, edits' = edits,
                      NEW p \in Protected, disk[p] # Absent
               PROVE  disk'[p] = disk[p]
    OBVIOUS
  <2>1. ASSUME NEW s \in Sinks, WriteEntry(s) PROVE disk'[p] = disk[p]
    BY <2>1, WriteKeepsProtected
  <2>2. ASSUME NEW q \in Paths, Edit(q) PROVE FALSE
    BY <2>2 DEF Edit, SinkInv, SinkTyped
  <2> QED
    BY <2>1, <2>2 DEF Next, Run, Commit, PlanEntry, PlanDone, SkipEntry, Revalidate, CommitDone,
       Crash, Rerun, vars
<1> QED
  BY <1>1, SinkInvariant, PTL DEF Spec, NeverClobbers

\* A receipt that says passed is true of every protected destination, also of
\* those that the plan called unchanged and nobody looked at again.
THEOREM SinkPassedIsOnDisk == Spec => []PassedIsOnDisk
<1>1. SinkInv => PassedIsOnDisk
  <2> SUFFICES ASSUME SinkInv, edits = 0, NEW s \in Sinks, Passed(s), NEW n \in DOMAIN Intents[s],
                      Intents[s][n].path \in Protected
               PROVE  disk[Intents[s][n].path] = Intents[s][n].content
    BY DEF PassedIsOnDisk
  <2>1. PlanFollowed(s) /\ SaysWhatIsThere(s) /\ phase[s] = "done"
    BY DEF SinkInv, Passed
  <2>2. results[s] \in Seq(Outcomes) /\ plan[s] \in Seq(PlanEntries) /\ Intents[s] \in Seq(Intent)
    BY SinkAssumption DEF SinkInv, SinkTyped
  <2>3. n \in DOMAIN results[s] /\ n \in DOMAIN plan[s]
    BY <2>1, <2>2 DEF PlanFollowed
  <2>4. results[s][n] \in {"written", "skipped"}
    BY <2>2, <2>3 DEF Passed, Failed, Outcomes, Statuses
  <2> QED
    BY <2>1, <2>3, <2>4 DEF SaysWhatIsThere
<1> QED
  BY <1>1, SinkInvariant, PTL

-----------------------------------------------------------------------------
(* A commit that was cut short.                                             *)

\* While only sinks have touched the directory: a destination that nothing
\* else is to be written to, that nobody may overwrite, and that holds what the
\* entry wants or nothing.
Undisturbed(s, n) ==
    /\ edits = 0
    /\ Sole(s, n)
    /\ Intents[s][n].path \in Protected
    /\ disk[Intents[s][n].path] \in {Absent, Intents[s][n].content}

\* Such an entry is planned as unchanged or as new, was not failed, and, as long
\* as it waits for its turn, a new file is still missing.
Resumed(s, n) ==
    /\ plan[s][n].action \in {"skip", "create"}
    /\ plan[s][n].action = "create" => plan[s][n].existing = Absent
    /\ n \in DOMAIN results[s] => results[s][n] # "failed"
    /\ n \notin DOMAIN results[s] /\ plan[s][n].action = "create" =>
         disk[Intents[s][n].path] = Absent

ResumeInv == \A s \in Sinks : \A n \in DOMAIN plan[s] : Undisturbed(s, n) => Resumed(s, n)

\* The positions of the results are positions of the plan, and those of the plan
\* positions of the intents.
LEMMA PlanPositions ==
    ASSUME SinkInv, NEW s \in Sinks
    PROVE  /\ plan[s] \in Seq(PlanEntries) /\ results[s] \in Seq(Outcomes)
           /\ Intents[s] \in Seq(Intent)
           /\ \A n \in DOMAIN plan[s] : n \in DOMAIN Intents[s]
           /\ \A n \in DOMAIN results[s] : n \in DOMAIN plan[s]
<1>1. /\ plan[s] \in Seq(PlanEntries) /\ results[s] \in Seq(Outcomes)
      /\ Intents[s] \in Seq(Intent)
  BY SinkAssumption DEF SinkInv, SinkTyped
<1>2. Len(plan[s]) <= Len(Intents[s]) /\ Len(results[s]) <= Len(plan[s])
  BY DEF SinkInv, PlanFollowed
<1> QED
  BY <1>1, <1>2

\* A protected destination that a step leaves with what the entry wants, or
\* with nothing, was so before, because what is there stays.
LEMMA UndisturbedBefore ==
    ASSUME SinkInv, [Next]_vars, NEW s \in Sinks, NEW n \in DOMAIN Intents[s],
           Undisturbed(s, n)'
    PROVE  /\ Undisturbed(s, n)
           /\ disk[Intents[s][n].path] # Absent =>
                disk'[Intents[s][n].path] = disk[Intents[s][n].path]
<1> DEFINE p == Intents[s][n].path
<1>1. edits = 0 /\ edits' = 0 /\ Sole(s, n) /\ p \in Protected
  <2>1. edits' = 0 /\ edits \in Nat
    BY DEF Undisturbed, SinkInv, SinkTyped
  <2>2. ASSUME NEW q \in Paths, Edit(q) PROVE FALSE
    BY <2>1, <2>2 DEF Edit
  <2> QED
    BY <2>1, <2>2 DEF Undisturbed, Sole, Protected, Next, Run, Commit, PlanEntry, PlanDone, SkipEntry,
       Revalidate, WriteEntry, CommitDone, Crash, Rerun, vars
<1>2. ASSUME disk[p] # Absent PROVE disk'[p] = disk[p]
  <2>1. ASSUME NEW r \in Sinks, WriteEntry(r) PROVE disk'[p] = disk[p]
    BY <1>1, <1>2, <2>1, WriteKeepsProtected
  <2>2. ASSUME NEW q \in Paths, Edit(q) PROVE FALSE
    BY <1>1, <2>2 DEF Edit, SinkInv, SinkTyped
  <2> QED
    BY <2>1, <2>2 DEF Next, Run, Commit, PlanEntry, PlanDone, SkipEntry, Revalidate, CommitDone,
       Crash, Rerun, vars
<1> QED
  BY <1>1, <1>2 DEF Undisturbed

\* plan() never refuses such an entry, and calls it new only when it is missing.
LEMMA PlanResumes ==
    ASSUME SinkInv, ResumeInv, NEW s \in Sinks, PlanEntry(s)
    PROVE  ResumeInv'
<1> DEFINE k == Len(plan[s]) + 1
           i == Intents[s][k]
           action == IF Collision(s, k) THEN "refuse" ELSE Decide(i, disk[i.path])
           e == [action |-> action, existing |-> HashOf(disk[i.path])]
<1>1. /\ plan' = [plan EXCEPT ![s] = Append(@, e)]
      /\ phase[s] = "plan" /\ Len(plan[s]) < Len(Intents[s])
      /\ UNCHANGED <<disk, phase, results, runs, edits>>
  BY DEF PlanEntry
<1>2. plan[s] \in Seq(PlanEntries) /\ Intents[s] \in Seq(Intent) /\ results[s] = <<>>
  BY <1>1, PlanPositions DEF SinkInv, PlanFollowed
<1>3. k \in Nat /\ k \in DOMAIN Intents[s] /\ i \in Intent
  BY <1>1, <1>2
<1>4. ASSUME Undisturbed(s, k)
      PROVE  action \in {"skip", "create"} /\ (action = "create" => disk[i.path] = Absent)
  <2>1. ~ Collision(s, k)
    <3> SUFFICES ASSUME NEW m \in 1 .. k - 1, Intents[s][m].path = Intents[s][k].path PROVE FALSE
      BY DEF Collision
    <3>1. m \in DOMAIN Intents[s] /\ m # k
      BY <1>2, <1>3
    <3> QED
      BY <1>4, <3>1 DEF Undisturbed, Sole
  <2>2. disk[i.path] \in {Absent, i.content} /\ i.content \in Contents
    BY <1>3, <1>4 DEF Undisturbed, Intent
  <2> QED
    BY <2>1, <2>2, SinkAssumption DEF Decide
<1>5. HashOf(Absent) = Absent
  BY DEF HashOf
<1> HIDE DEF action
<1>6. /\ e.action = action /\ e.existing = HashOf(disk[i.path])
  OBVIOUS
<1> HIDE DEF e, i
<1>7. /\ plan'[s] = Append(plan[s], e) /\ \A r \in Sinks \ {s} : plan'[r] = plan[r]
  BY <1>1 DEF SinkInv, SinkTyped
<1>8. /\ \A m \in DOMAIN plan[s] : plan'[s][m] = plan[s][m]
      /\ plan'[s][k] = e
      /\ \A m \in DOMAIN plan'[s] : m \in DOMAIN plan[s] \/ m = k
  BY <1>2, <1>7
<1>9. SUFFICES ASSUME NEW r \in Sinks, NEW m \in DOMAIN plan'[r], Undisturbed(r, m)'
               PROVE  Resumed(r, m)'
  BY DEF ResumeInv
<1>10. Undisturbed(r, m)
  BY <1>1, <1>9 DEF Undisturbed, Sole, Protected
<1>11. CASE r = s /\ m = k
  <2>1. action \in {"skip", "create"} /\ (action = "create" => disk[i.path] = Absent)
    BY <1>4, <1>10, <1>11
  <2>2. results'[s] = <<>> /\ DOMAIN results'[s] = {} /\ disk' = disk
    BY <1>1, <1>2
  <2>3. /\ plan'[s][k].action = action /\ plan'[s][k].existing = HashOf(disk[i.path])
    BY <1>6, <1>8
  <2> QED
    BY <1>5, <1>11, <2>1, <2>2, <2>3 DEF Resumed, i
<1>12. CASE ~ (r = s /\ m = k)
  <2>1. m \in DOMAIN plan[r] /\ plan'[r][m] = plan[r][m]
    BY <1>7, <1>8, <1>9, <1>12
  <2>2. Resumed(r, m)
    BY <1>10, <2>1 DEF ResumeInv
  <2> QED
    BY <1>1, <2>1, <2>2 DEF Resumed
<1> QED
  BY <1>11, <1>12

\* The result appended for an entry at its turn says nothing of the others, and
\* only that entry's destination may have changed.
LEMMA ResultResumes ==
    ASSUME SinkInv, ResumeInv, [Next]_vars, NEW s \in Sinks, NEW outcome \in Outcomes,
           Result(s, outcome), Pending(s), phase[s] \in {"commit", "write"}, UNCHANGED plan,
           \A p \in Paths : p # Current(s).path => disk'[p] = disk[p],
           Undisturbed(s, Pos(s)) /\ Resumed(s, Pos(s)) => outcome # "failed"
    PROVE  ResumeInv'
<1> DEFINE k == Pos(s)
<1>1. SUFFICES ASSUME NEW r \in Sinks, NEW m \in DOMAIN plan'[r], Undisturbed(r, m)'
               PROVE  Resumed(r, m)'
  BY DEF ResumeInv
<1>2. m \in DOMAIN plan[r] /\ m \in DOMAIN Intents[r] /\ plan'[r] = plan[r]
  BY <1>1, PlanPositions
<1>3. Undisturbed(r, m)
  BY <1>1, <1>2, UndisturbedBefore
<1>4. Resumed(r, m)
  BY <1>2, <1>3 DEF ResumeInv
<1>5. /\ results[s] \in Seq(Outcomes) /\ k = Len(results[s]) + 1
      /\ Intents[s] \in Seq(Intent) /\ k \in DOMAIN Intents[s]
  BY PlanPositions DEF Pos, Pending
<1>6. /\ results'[s] = Append(results[s], outcome)
      /\ \A q \in Sinks \ {s} : results'[q] = results[q]
  BY DEF Result, SinkInv, SinkTyped
<1> HIDE DEF k
<1>7. /\ results'[s][k] = outcome
      /\ \A j \in DOMAIN results[s] : j \in DOMAIN results'[s] /\ results'[s][j] = results[s][j]
      /\ \A j \in DOMAIN results'[s] : j \in DOMAIN results[s] \/ j = k
      /\ k \in DOMAIN results'[s] /\ k \notin DOMAIN results[s]
  BY <1>5, <1>6
<1>8. CASE r = s /\ m = k
  BY <1>2, <1>3, <1>4, <1>7, <1>8 DEF Resumed, k
<1>9. CASE ~ (r = s /\ m = k)
  <2>1. Intents[r][m].path # Current(s).path /\ Intents[r][m].path \in Paths
    BY <1>2, <1>3, <1>5, <1>9, IntentTyped DEF Undisturbed, Sole, Current, k, Intent
  <2>2. disk'[Intents[r][m].path] = disk[Intents[r][m].path]
    BY <2>1
  <2>3. /\ m \in DOMAIN results[r] <=> m \in DOMAIN results'[r]
        /\ m \in DOMAIN results[r] => results'[r][m] = results[r][m]
    BY <1>6, <1>7, <1>9
  <2> QED
    BY <1>2, <1>4, <2>2, <2>3 DEF Resumed
<1> QED
  BY <1>8, <1>9

\* Steps that change neither a plan nor a result nor a file.
LEMMA QuietResumes ==
    ASSUME SinkInv, ResumeInv, [Next]_vars, UNCHANGED <<disk, plan, results>>
    PROVE  ResumeInv'
<1>1. SUFFICES ASSUME NEW r \in Sinks, NEW m \in DOMAIN plan'[r], Undisturbed(r, m)'
               PROVE  Resumed(r, m)'
  BY DEF ResumeInv
<1>2. m \in DOMAIN plan[r] /\ m \in DOMAIN Intents[r] /\ plan'[r] = plan[r]
  BY <1>1, PlanPositions
<1>3. Resumed(r, m)
  BY <1>1, <1>2, UndisturbedBefore DEF ResumeInv
<1> QED
  BY <1>2, <1>3 DEF Resumed

\* Every step, with the invariant of plan and commit.
LEMMA ResumeStep == SinkInv /\ ResumeInv /\ [Next]_vars => ResumeInv'
<1> SUFFICES ASSUME SinkInv, ResumeInv, [Next]_vars PROVE ResumeInv'
  OBVIOUS
<1> DEFINE Entered(s) == Undisturbed(s, Pos(s)) /\ Resumed(s, Pos(s))
<1>1. ASSUME NEW s \in Sinks, Pending(s), phase[s] \in {"commit", "write"}
      PROVE  /\ Pos(s) \in DOMAIN plan[s] /\ Pos(s) \notin DOMAIN results[s]
             /\ Current(s) \in Intent
  <2>1. Len(plan[s]) = Len(Intents[s])
    BY <1>1 DEF SinkInv, PlanFollowed
  <2>2. Pos(s) \in DOMAIN plan[s] /\ Pos(s) \in DOMAIN Intents[s] /\ Pos(s) \notin DOMAIN results[s]
    BY <1>1, <2>1, PlanPositions DEF Pos, Pending
  <2> QED
    BY <2>2, IntentTyped DEF Current
<1>2. ASSUME NEW s \in Sinks, SkipEntry(s) PROVE ResumeInv'
  BY <1>2, ResultResumes DEF SkipEntry, Outcomes, Statuses
<1>3. ASSUME NEW s \in Sinks, Revalidate(s) PROVE ResumeInv'
  <2>1. CASE Drifted(s)
    <3>1. ~ Entered(s)
      <4> SUFFICES ASSUME Entered(s) PROVE FALSE
        OBVIOUS
      <4>1. Entry(s).action = "create" /\ Entry(s).existing = Absent /\ disk[Current(s).path] = Absent
        BY <1>1, <1>3 DEF Revalidate, Resumed, Entry, Current
      <4> QED
        BY <2>1, <4>1, SinkAssumption DEF Drifted, HashOf
    <3>2. /\ Result(s, "failed") /\ Pending(s) /\ phase[s] = "commit"
          /\ UNCHANGED <<disk, plan>>
      BY <1>3, <2>1 DEF Revalidate
    <3> QED
      BY <3>1, <3>2, ResultResumes DEF Outcomes, Statuses
  <2>2. CASE ~ Drifted(s)
    BY <1>3, <2>2, QuietResumes DEF Revalidate
  <2> QED
    BY <2>1, <2>2
<1>4. ASSUME NEW s \in Sinks, WriteEntry(s) PROVE ResumeInv'
  <2>1. Pending(s) /\ phase[s] = "write" /\ Entry(s).action \in {"create", "replace"}
    BY <1>4 DEF WriteEntry, SinkInv, PlanFollowed
  <2>2. UNCHANGED plan /\ \A p \in Paths : p # Current(s).path => disk'[p] = disk[p]
    BY <1>4 DEF WriteEntry, Land, SinkInv, SinkTyped
  <2>3. CASE Result(s, "failed") /\ ~ CanLand(s)
    <3>1. ~ Entered(s)
      BY <1>1, <2>1, <2>3 DEF Resumed, Entry, Current, CanLand
    <3> QED
      BY <2>1, <2>2, <2>3, <3>1, ResultResumes DEF Outcomes, Statuses
  <2>4. ASSUME NEW outcome \in {"written", "ioerror"}, Result(s, outcome) PROVE ResumeInv'
    BY <2>1, <2>2, <2>4, ResultResumes DEF Outcomes, Statuses
  <2> QED
    BY <1>4, <2>3, <2>4 DEF WriteEntry
<1>5. ASSUME NEW s \in Sinks, Rerun(s) PROVE ResumeInv'
  <2>1. /\ plan'[s] = <<>> /\ disk' = disk
        /\ \A r \in Sinks \ {s} : plan'[r] = plan[r] /\ results'[r] = results[r]
    BY <1>5 DEF Rerun, SinkInv, SinkTyped
  <2>2. SUFFICES ASSUME NEW r \in Sinks, NEW m \in DOMAIN plan'[r], Undisturbed(r, m)'
                 PROVE  Resumed(r, m)'
    BY DEF ResumeInv
  <2>3. r # s
    BY <2>1, <2>2
  <2>4. m \in DOMAIN plan[r] /\ m \in DOMAIN Intents[r]
    BY <2>1, <2>2, <2>3, PlanPositions
  <2>5. Resumed(r, m)
    BY <2>2, <2>4, UndisturbedBefore DEF ResumeInv
  <2> QED
    BY <2>1, <2>3, <2>5 DEF Resumed
<1>6. ASSUME NEW p \in Paths, Edit(p) PROVE ResumeInv'
  BY <1>6 DEF Edit, SinkInv, SinkTyped, ResumeInv, Undisturbed
<1>7. ASSUME NEW s \in Sinks, PlanEntry(s) PROVE ResumeInv'
  BY <1>7, PlanResumes
<1>8. ASSUME NEW s \in Sinks, PlanDone(s) \/ CommitDone(s) \/ Crash(s) PROVE ResumeInv'
  BY <1>8, QuietResumes DEF PlanDone, CommitDone, Crash
<1>9. CASE UNCHANGED vars
  BY <1>9, QuietResumes DEF vars
<1> QED
  BY <1>2, <1>3, <1>4, <1>5, <1>6, <1>7, <1>8, <1>9 DEF Next, Run, Commit

\* However often a run dies or meets errors of the machine, and whatever other
\* sinks do meanwhile: no rerun refuses an entry whose destination only it is
\* after, or fails it for what it finds there.
THEOREM SinkResumesItsOwnWork == Spec => []ResumesItsOwnWork
<1>1. Init => ResumeInv
  BY DEF Init, ResumeInv
<1>2. Spec => []ResumeInv
  BY <1>1, SinkInvariant, ResumeStep, PTL DEF Spec
<1>3. ResumeInv => ResumesItsOwnWork
  BY DEF ResumeInv, ResumesItsOwnWork, Undisturbed, Resumed
<1> QED
  BY <1>2, <1>3, PTL
=============================================================================
