----------------------------- MODULE SectorStore ------------------------------
(***************************************************************************)
(* What the file system may expect of disk_read and disk_write: a store of *)
(* sectors, one call at a time.  A call that succeeds has taken effect.  A *)
(* write that fails may have reached the medium, or may still do so before *)
(* the next call succeeds.                                                 *)
(***************************************************************************)
CONSTANTS Lbas, Values, Blank

VARIABLES
  store,      \* the sectors
  open,       \* the call that runs, or NoCall
  landed,     \* it is a write and has reached the medium
  floating,   \* a write that has failed and may still reach the medium
  refused,    \* the medium has refused the open write after taking its data
  answer      \* what the last call has returned

vars == <<store, open, landed, floating, refused, answer>>

NoCall == [op |-> "none"]
Calls  == [op : {"read"}, lba : Lbas] \cup [op : {"write"}, lba : Lbas, val : Values]

Writes == [op : {"write"}, lba : Lbas, val : Values]

Ok(v)  == [ok |-> TRUE, val |-> v]
Failed == [ok |-> FALSE, val |-> Blank]

Init ==
  /\ store \in [Lbas -> Values \cup {Blank}]
  /\ open = NoCall /\ landed = FALSE /\ floating = NoCall /\ refused = FALSE
  /\ answer = Failed

Call(c) ==
  /\ open = NoCall /\ open' = c
  /\ UNCHANGED <<store, landed, floating, refused, answer>>

Land ==
  /\ open \in Writes /\ ~landed
  /\ store' = [store EXCEPT ![open.lba] = open.val]
  /\ landed' = TRUE
  /\ UNCHANGED <<open, floating, refused, answer>>

\* The medium takes the data and reports an error.
Refuse ==
  /\ open \in Writes /\ ~landed /\ refused' = TRUE
  /\ UNCHANGED <<store, open, landed, floating, answer>>

\* A write that failed before settles, one way or the other.
Settle ==
  /\ floating \in Writes /\ floating' = NoCall
  /\ \/ store' = [store EXCEPT ![floating.lba] = floating.val]
     \/ UNCHANGED store
  /\ UNCHANGED <<open, landed, refused, answer>>

Return(a) == open' = NoCall /\ landed' = FALSE /\ refused' = FALSE /\ answer' = a

\* Success: nothing is left in the air, and the call has done what it should.
Succeed ==
  /\ floating = NoCall
  /\ \/ open \in Calls \ Writes /\ Return(Ok(store[open.lba]))
     \/ open \in Writes /\ (landed \/ refused) /\ Return(Ok(open.val))
  /\ UNCHANGED <<store, floating>>

\* Failure; a write that has not landed may float on.
Fail ==
  /\ open # NoCall /\ Return(Failed)
  /\ \/ UNCHANGED floating
     \/ open \in Writes /\ ~landed /\ floating = NoCall /\ floating' = open
  /\ UNCHANGED store

\* Power is lost.  What is in the air lands or not; a store in memory is gone.
PowerLoss ==
  /\ open' = NoCall /\ landed' = FALSE /\ refused' = FALSE /\ floating' = NoCall
  /\ \/ UNCHANGED store
     \/ \E w \in {open, floating} \cap Writes : store' = [store EXCEPT ![w.lba] = w.val]
     \/ store' \in [Lbas -> Values \cup {Blank}]
  /\ UNCHANGED answer

Next ==
  \/ \E c \in Calls : Call(c)
  \/ Land \/ Refuse \/ Settle \/ Succeed \/ Fail \/ PowerLoss

Spec == Init /\ [][Next]_vars
===============================================================================
