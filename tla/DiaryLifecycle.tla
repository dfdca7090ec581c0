--------------------------- MODULE DiaryLifecycle ---------------------------
(***************************************************************************)
(* What the analysis of a diary promises to whoever reads GET /diaries:    *)
(* the statuses a diary goes through and the number of analyses paid for   *)
(* it, with no word about processes, locks, background tasks or pushes.    *)
(* AnalysisPipeline implements it (see Lifecycle there).                   *)
(***************************************************************************)
EXTENDS Naturals

CONSTANTS Diary,      \* the diaries that may ever be created
          MaxSend     \* MAX_SEND_CNT: analyses a diary may be given

VARIABLES state,      \* "absent", "pending", "processing", "done", "failed" or "gone"
          attempts    \* analyses started so far

vars == <<state, attempts>>

Init == /\ state = [d \in Diary |-> "absent"]
        /\ attempts = [d \in Diary |-> 0]

Move(d, from, to) == /\ state[d] = from
                     /\ state' = [state EXCEPT ![d] = to]

Create(ds) == /\ \A d \in ds : state[d] = "absent"
              /\ state' = [d \in Diary |-> IF d \in ds THEN "pending" ELSE state[d]]
              /\ UNCHANGED attempts

\* An analysis starts on a waiting diary that has attempts left.
Attempt(d) == /\ attempts[d] < MaxSend
              /\ Move(d, "pending", "processing")
              /\ attempts' = [attempts EXCEPT ![d] = @ + 1]

Succeed(d) == Move(d, "processing", "done") /\ UNCHANGED attempts

\* An attempt comes to nothing: the diary waits again.  One recovery sweep may
\* give several diaries back.
GiveBack(ds) == /\ \A d \in ds : state[d] = "processing"
                /\ state' = [d \in Diary |-> IF d \in ds THEN "pending" ELSE state[d]]
                /\ UNCHANGED attempts

\* Only a diary that used up its attempts is given up.
GiveUp(d) == /\ attempts[d] >= MaxSend
             /\ Move(d, "pending", "failed")
             /\ UNCHANGED attempts

\* The user deletes the diary, or the account and every diary with it.  What
\* the pipeline still does to a removed diary is nobody's concern.
Remove(ds) == /\ state' = [d \in Diary |-> IF d \in ds THEN "gone" ELSE state[d]]
              /\ attempts' = [d \in Diary |-> IF d \in ds THEN 0 ELSE attempts[d]]

Next == \/ \E ds \in SUBSET Diary : Create(ds) \/ GiveBack(ds) \/ Remove(ds)
        \/ \E d \in Diary : Attempt(d) \/ Succeed(d) \/ GiveUp(d)

Spec == Init /\ [][Next]_vars
=============================================================================
