------------------------------ MODULE TxoBuffer ------------------------------
(***************************************************************************)
(* The txo-buffer program: one account per writer, reused block after      *)
(* block.  Instructions name the batch they belong to; a higher batch      *)
(* number starts the account over.  The account's bytes are cells of one   *)
(* chunk each; Zero is a cell nobody has written.                          *)
(***************************************************************************)
EXTENDS Naturals, Sequences

CONSTANTS
  NoKey,        \* the writer of an account that was not initialised
  Zero,         \* a chunk of zero bytes
  MaxGrow       \* how many chunks an account may grow in one instruction

VARIABLE txo

NoTxoBuffer ==
  [writer |-> NoKey, finalized |-> FALSE, height |-> 0, batch |-> 0,
   size |-> 0, body |-> <<>>]

(* Tag 0: allocates the account if needed and sets the writer the PDA is   *)
(* derived from; everything else in the header is left as it was.          *)
TxoInitialize(w) == txo' = [txo EXCEPT !.writer = w]

(* Faulty: accepts the batch that was current before. *)
AnyEarlierBatch(b, batch) == batch <= b.batch + 1

(* handle_batch_transition, as a guard ... *)
BatchAllowed(b, batch) ==
  \/ batch = b.batch /\ ~b.finalized
  \/ batch = b.batch + 1

(* ... and as the header it leaves. *)
BatchTransition(b, batch) == [b EXCEPT !.batch = batch, !.finalized = FALSE]

Resized(body, len) ==
  [i \in 1..len |-> IF i <= Len(body) THEN body[i] ELSE Zero]

(* Tag 1.  The height may not change within a batch once it is set. *)
TxoSetDataLength(signer, c) ==
  /\ txo.writer # NoKey
  /\ signer = txo.writer
  /\ BatchAllowed(txo, c.batch)
  /\ c.batch = txo.batch /\ txo.height # 0 => txo.height = c.height
  /\ c.len <= Len(txo.body) + (IF c.resize THEN MaxGrow ELSE 0)
  /\ txo' = [BatchTransition(txo, c.batch) EXCEPT
               !.height    = c.height,
               !.finalized = @ \/ c.finalize,
               !.size      = c.len,
               !.body      = IF c.resize THEN Resized(@, c.len) ELSE @]

(* Tag 2, one chunk. *)
TxoWriteData(signer, c) ==
  /\ txo.writer # NoKey
  /\ signer = txo.writer
  /\ BatchAllowed(txo, c.batch)
  /\ c.offset < Len(txo.body)
  /\ txo' = [BatchTransition(txo, c.batch) EXCEPT
               !.body[c.offset + 1] = c.data,
               !.size = IF c.offset + 1 > @ THEN c.offset + 1 ELSE @]
=============================================================================
