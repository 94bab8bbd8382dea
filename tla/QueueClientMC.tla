---------------------------- MODULE QueueClientMC ----------------------------
(***************************************************************************)
(* QueueClient for TLC: two oracles, of which the queue may list none, one *)
(* or both, two changes in the course of a call, and one or two attempts   *)
(* (0 is the argument that still makes one).  The contents of an account   *)
(* differ in everything an instruction takes from it; one is longer than   *)
(* this version of the program makes it; a shorter one is refused by every *)
(* reader, as a missing one is.                                            *)
(***************************************************************************)
EXTENDS QueueClient

CONSTANTS op, auth1, auth2

MCOracleData ==
    {[len |-> 10, discriminator |-> TRUE, queue |-> QueueId, authority |-> auth1,
      operator |-> op, status |-> 4, until |-> 1],
     [len |-> 10, discriminator |-> TRUE, queue |-> OtherQueue, authority |-> auth2,
      operator |-> NoOperator, status |-> 8, until |-> 0],
     [len |-> 11, discriminator |-> TRUE, queue |-> QueueId, authority |-> auth2,
      operator |-> op, status |-> 1, until |-> 2]}
=============================================================================
