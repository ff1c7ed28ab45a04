--------------------------- MODULE MCTransferSync ---------------------------
(***************************************************************************)
(* Small instances of TransferSync: transfers, assets and calls as model   *)
(* values.  Each .cfg picks the transfers and the tasks that take part.    *)
(***************************************************************************)
EXTENDS TransferSync, TLC

CONSTANTS r1, r2, s1, s2, s3, a1, a2, tx, gift

\* Two receives of one asset; two sends of one call, of different assets; one
\* send of another call that shares its asset with the first.
MCAssetOf ==
    [x \in Transfers |-> IF x \in {r1, r2, s1, s3} THEN a1 ELSE a2]

MCTxOf == [x \in Sends |-> IF x = s3 THEN gift ELSE tx]
=============================================================================
