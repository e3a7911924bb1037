---------------------------- MODULE MCReceiver ----------------------------
(***************************************************************************)
(* Instances of SyncReceiver for TLC.  An envelope is <<author, author_seq, *)
(* kind>>: the op at author_seq 1 registers its author, "ctl" marks a later *)
(* control op, "fork" a second continuation of its author's chain, "late"   *)
(* an op from the future and "barred" one whose author holds no grant.      *)
(***************************************************************************)
EXTENDS SyncReceiver

MCOp     == {e[2] : e \in Offer}
MCMember == {"me"} \cup {o[1] : o \in MCOp}
MCAuthor == [o \in MCOp |-> o[1]]
MCASeq   == [o \in MCOp |-> o[2]]
MCOpId   == [o \in MCOp |-> o]

\* The op each op was signed on top of, and the control op each control op follows.
Before(o) == {p \in MCOp : p[1] = o[1] /\ p[2] = o[2] - 1 /\ p[3] # "fork"}
MCPrev   == [o \in MCOp |-> IF Before(o) = {} THEN NoOp ELSE CHOOSE p \in Before(o) : TRUE]

MCClass  == [o \in MCOp |-> IF o[2] = 1 THEN "register"
                           ELSE IF o[3] = "ctl" THEN "control" ELSE "content"]
Position(o) == CHOOSE s \in Seqs : <<s, o>> \in Offer
ControlBefore(o) == {p \in MCOp : MCClass[p] # "content" /\ Position(p) < Position(o)}
MCCtlPrev ==
  [o \in MCOp |->
     IF ControlBefore(o) = {} THEN NoOp
     ELSE CHOOSE p \in ControlBefore(o) : \A q \in ControlBefore(o) : Position(q) <= Position(p)]

MCVerdict == [o \in MCOp |-> CASE o[3] = "late"   -> "hlc_in_the_future"
                               [] o[3] = "barred" -> "no_live_grant"
                               [] OTHER           -> "apply"]
MCAuthored == {}

\* ann forks her chain at 3; the server serves two ops under one seq, twice.
HostileOffer ==
  {<<1, <<"ann", 1, "op">>>>, <<2, <<"ann", 3, "fork">>>>, <<2, <<"ann", 3, "barred">>>>,
   <<3, <<"ann", 2, "op">>>>, <<3, <<"me", 1, "op">>>>}

\* Two honest authors, each with an op that is refused after it was logged.
ReorderedOffer ==
  {<<1, <<"ann", 1, "op">>>>, <<2, <<"bob", 1, "op">>>>, <<3, <<"ann", 2, "op">>>>,
   <<5, <<"ann", 3, "late">>>>, <<6, <<"bob", 2, "op">>>>, <<7, <<"ann", 4, "op">>>>,
   <<8, <<"bob", 3, "barred">>>>}

\* The same, with an op of an author nobody registered among them.
HonestOffer == ReorderedOffer \cup {<<4, <<"eve", 2, "op">>>>}

\* A control op in the middle of a chain, as a Grant or a rotation is.
GrantOffer ==
  {<<1, <<"ann", 1, "op">>>>, <<2, <<"ann", 2, "op">>>>, <<3, <<"ann", 3, "ctl">>>>,
   <<4, <<"ann", 4, "op">>>>}
=============================================================================
