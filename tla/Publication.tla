---------------------------- MODULE Publication ----------------------------
(***************************************************************************)
(* What ingestion promises to somebody who searches: a document that was   *)
(* accepted becomes searchable at most once, in one step, with all of its  *)
(* chunks, and its searchable text never changes.  Only an operator takes  *)
(* it back, who has doubted it before it was searchable and acts on that   *)
(* doubt too late; then it is gone for good.  How it gets there (uploads,  *)
(* the task queue, the worker's two tasks, their transactions) is the      *)
(* business of module Ingestion.                                           *)
(***************************************************************************)
EXTENDS Naturals

CONSTANTS
    Documents,      \* the documents that may ever be accepted
    Size            \* Size[d]: how many chunks the whole of d is

VARIABLES
    accepted,       \* the documents with a committed row
    doubted,        \* the documents the operator has decided to abandon
    published,      \* the documents search may return
    retracted,      \* those it could return once
    visible         \* visible[d]: how many chunks of d search can match

vars == <<accepted, doubted, published, retracted, visible>>

Init ==
    /\ accepted = {}
    /\ doubted = {}
    /\ published = {}
    /\ retracted = {}
    /\ visible = [d \in Documents |-> 0]

\* The upload's transaction commits.
Accept(d) ==
    /\ d \notin accepted
    /\ accepted' = accepted \cup {d}
    /\ UNCHANGED <<doubted, published, retracted, visible>>

\* The whole document appears at once.
Publish(d) ==
    /\ d \in accepted \ (published \cup retracted)
    /\ published' = published \cup {d}
    /\ visible' = [visible EXCEPT ![d] = Size[d]]
    /\ UNCHANGED <<accepted, doubted, retracted>>

\* The operator looks: only what is not yet searchable looks stuck.
Doubt(d) ==
    /\ d \in accepted \ (doubted \cup published \cup retracted)
    /\ doubted' = doubted \cup {d}
    /\ UNCHANGED <<accepted, published, retracted, visible>>

\* The operator acts while the document is not searchable: nobody notices.
Abandon(d) ==
    /\ d \in doubted \ published
    /\ doubted' = doubted \ {d}
    /\ UNCHANGED <<accepted, published, retracted, visible>>

\* The operator acts when the document has become searchable meanwhile.
Retract(d) ==
    /\ d \in doubted \cap published
    /\ doubted' = doubted \ {d}
    /\ published' = published \ {d}
    /\ retracted' = retracted \cup {d}
    /\ visible' = [visible EXCEPT ![d] = 0]
    /\ UNCHANGED accepted

Next == \E d \in Documents : Accept(d) \/ Publish(d) \/ Doubt(d) \/ Abandon(d) \/ Retract(d)

Spec == Init /\ [][Next]_vars

=============================================================================
