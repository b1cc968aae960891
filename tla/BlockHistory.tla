----------------------------- MODULE BlockHistory -----------------------------
(***************************************************************************)
(* HistorySync: rebuilding the mints and the txo indices of every block    *)
(* from the operator's transactions.  The operator stages a block (it      *)
(* re-initialises the mint buffer and inserts the groups, opens a new      *)
(* batch of the txo buffer, writes the chunks and finalizes it) and then   *)
(* submits the block update.  The reader walks back from a block update    *)
(* over the newest transactions of the operator and collects what it finds *)
(* on the way to the update before.                                        *)
(*                                                                         *)
(* A job is [height, version, groups, chunks, use]: the list that is       *)
(* staged, in its version-th form (a reorg of the Dogecoin chain changes   *)
(* the block at a height), and whether it is used by a block update or, as *)
(* a further block of a reorg update, by an auto-advance mint.  Every      *)
(* transaction is confirmed before a later stage is sent and so has a slot *)
(* of its own, its position in the log.                                    *)
(***************************************************************************)
EXTENDS Naturals, Sequences, SequencesExt, Functions

CONSTANTS
  Jobs,           \* what the operator stages, in order
  Lookback,       \* how many transactions of the operator are looked at
  MaxAbandoned,   \* bound: uploads given up half-way
  MaxRefused      \* bound: block updates the bridge refuses

BlockHistoryConstants ==
  /\ Lookback \in Nat \ {0} /\ MaxAbandoned \in Nat /\ MaxRefused \in Nat

VARIABLES
  log,            \* the operator's transactions, oldest first
  op              \* [job, batch, plan, version, abandoned, refused]

vars == <<log, op>>

Data(j, v, i) == [height |-> Jobs[j].height, version |-> v, part |-> i]

(* The stages of job j, each a set of transactions sent together. *)
Stages(j, v, batch) ==
  << {[op |-> "reinit"]},
     {[op |-> "insert", group |-> g, data |-> Data(j, v, g)] : g \in 1..Jobs[j].groups},
     {[op |-> "set_len", batch |-> batch, size |-> Jobs[j].chunks]},
     {[op |-> "write", batch |-> batch, off |-> k, data |-> Data(j, v, k)] :
        k \in 1..Jobs[j].chunks},
     {[op |-> "set_len", batch |-> batch, size |-> Jobs[j].chunks]},
     {[op |-> Jobs[j].use, job |-> j, version |-> v]} >>

Init ==
  /\ log = <<>>
  /\ op = [job |-> 1, batch |-> 0, plan |-> <<>>, version |-> 1,
           abandoned |-> 0, refused |-> 0]

Stage ==
  /\ op.plan = <<>> /\ op.job <= Len(Jobs)
  /\ op' = [op EXCEPT !.batch = @ + 1, !.plan = Stages(op.job, op.version, op.batch + 1)]
  /\ UNCHANGED log

Send ==
  /\ op.plan # <<>>
  /\ \E tx \in Head(op.plan) :
       LET rest == Head(op.plan) \ {tx} IN
       /\ log' = Append(log, tx)
       /\ op' = [op EXCEPT
            !.plan = IF rest = {} THEN Tail(@) ELSE [@ EXCEPT ![1] = rest],
            !.job = IF tx.op \in {"update", "advance"} THEN @ + 1 ELSE @,
            !.version = IF tx.op \in {"update", "advance"} THEN 1 ELSE @]

(* The upload is given up; the list may have changed when it is made again. *)
Abandon ==
  /\ op.plan # <<>> /\ op.abandoned < MaxAbandoned
  /\ op' = [op EXCEPT !.plan = <<>>, !.abandoned = @ + 1, !.version = @ + 1]
  /\ UNCHANGED log

(* The bridge refuses the update.  The transaction is on the chain all the *)
(* same; the operator submits it again.                                    *)
Refuse ==
  /\ Len(op.plan) = 1 /\ Jobs[op.job].use = "update"
  /\ op.refused < MaxRefused
  /\ log' = Append(log, [op |-> "refused", job |-> op.job, version |-> op.version])
  /\ op' = [op EXCEPT !.refused = @ + 1]

Next == Stage \/ Send \/ Abandon \/ Refuse

Spec == Init /\ [][Next]_vars
-----------------------------------------------------------------------------
NoParts == [i \in {} |-> 0]

Put(f, i, d) == [k \in DOMAIN f \cup {i} |-> IF k = i THEN d ELSE f[k]]

(* What the walk has collected: the maps by group and by offset, the txo   *)
(* batch it settled on, and whether it has met a block update (met) and    *)
(* the one before it (done).  is_block_update does not tell refused        *)
(* updates from others.                                                    *)
Blank == [met |-> FALSE, done |-> FALSE, mints |-> NoParts, writes |-> NoParts,
          batch |-> 0, size |-> 0]

IsBlockUpdate(tx) == tx.op \in {"update", "refused"}

(* Mint buffer instructions.  After the block update is met, a             *)
(* re-initialisation only breaks the loop over the instructions of its own *)
(* transaction.                                                            *)
ScanMint(acc, tx) ==
  IF tx.op = "reinit"
  THEN IF acc.met THEN acc ELSE [acc EXCEPT !.mints = NoParts]
  ELSE IF tx.op = "insert" THEN [acc EXCEPT !.mints = Put(@, tx.group, tx.data)]
  ELSE acc

(* Faulty: takes the writes of every batch. *)
ScanTxoAnyBatch(acc, tx) ==
  IF tx.op = "set_len" THEN [acc EXCEPT !.batch = tx.batch, !.size = tx.size]
  ELSE IF tx.op = "write" THEN [acc EXCEPT !.writes = Put(@, tx.off, tx.data)]
  ELSE acc

(* Txo buffer instructions: the first batch that is met, or a later one    *)
(* when no block update has been met yet, is the batch.                    *)
ScanTxo(acc, tx) ==
  IF tx.op = "set_len"
  THEN CASE acc.batch \in {0, tx.batch} -> [acc EXCEPT !.batch = tx.batch, !.size = tx.size]
         [] acc.batch \notin {0, tx.batch} /\ acc.met -> acc
         [] OTHER -> [acc EXCEPT !.batch = tx.batch, !.size = tx.size, !.writes = NoParts]
  ELSE IF tx.op = "write" /\ acc.batch \in {0, tx.batch}
  THEN [acc EXCEPT !.batch = tx.batch, !.writes = Put(@, tx.off, tx.data)]
  ELSE acc

Scan(acc, tx) ==
  IF acc.done \/ (IsBlockUpdate(tx) /\ acc.met) THEN [acc EXCEPT !.done = TRUE]
  ELSE ScanTxo(ScanMint([acc EXCEPT !.met = @ \/ IsBlockUpdate(tx)], tx), tx)

(* assemble_txo_indices: missing chunks are zero. *)
Assemble(acc) ==
  IF acc.writes = NoParts \/ acc.size = 0 THEN <<>>
  ELSE [k \in 1..acc.size |->
          IF k \in DOMAIN acc.writes THEN acc.writes[k]
          ELSE [height |-> 0, version |-> 0, part |-> 0]]

(* build_operator_tx_cache: the operator's newest `Lookback' transactions, *)
(* newest first.  (One that cannot be fetched is left out; the properties  *)
(* are about a node that answers.)                                         *)
OperatorTxCache ==
  Reverse(IF Len(log) > Lookback THEN SubSeq(log, Len(log) - Lookback + 1, Len(log))
          ELSE log)

(* Those up to the slot of the update at position n. *)
Relevant(n) ==
  SubSeq(OperatorTxCache, Len(log) - n + 1, Len(OperatorTxCache))

(* The walk for one record of the stream, and the same one over the cache  *)
(* of fetch_blocks.                                                        *)
ReconstructFromOperatorTxs(n) == FoldLeft(Scan, Blank, Relevant(n))

ReconstructFromCache(n) == FoldLeft(Scan, Blank, Relevant(n))

ParseBlockUpdate(n) ==
  LET found == ReconstructFromOperatorTxs(n)
  IN  [height |-> Jobs[log[n].job].height, mints |-> found.mints, txos |-> Assemble(found)]

(* fetch_block_update_info: what the update itself says. *)
FetchBlockUpdateInfo(n) == [height |-> Jobs[log[n].job].height, slot |-> n]

(* A block update from a height on is a record, with what is rebuilt for   *)
(* it.  What lies above to_height is not left out.                         *)
FetchBlocks(from, to) ==
  {[height |-> info.height, slot |-> info.slot,
    mints |-> ReconstructFromCache(info.slot).mints,
    txos |-> Assemble(ReconstructFromCache(info.slot))] :
     info \in {i \in {FetchBlockUpdateInfo(n) : n \in {k \in 1..Len(log) : IsBlockUpdate(log[k])}} :
                i.height >= from}}
-----------------------------------------------------------------------------
Updates == {n \in 1..Len(log) : log[n].op = "update"}

Staged(n, parts) == [i \in 1..parts |-> Data(log[n].job, log[n].version, i)]

(* The mints of a block that was accepted are rebuilt as they were staged, *)
(* in whatever order the inserts of a group landed.                        *)
MintsRebuilt ==
  \A n \in Updates :
    ParseBlockUpdate(n).mints = Staged(n, Jobs[log[n].job].groups)

(* So are its txo indices, even when other uploads to the same buffers     *)
(* were given up, or served an auto-advance, in between.                   *)
TxosRebuilt ==
  \A n \in Updates :
    LET job == Jobs[log[n].job] IN
    \E block \in FetchBlocks(job.height, job.height) :
      block.slot = n /\ block.txos = Staged(n, job.chunks)

(* Whatever the operator gave up and the bridge refused in between, the    *)
(* txo indices of a block are never mixed from several uploads: they are   *)
(* the right ones or none at all.                                          *)
TxosNeverMixed ==
  \A n \in Updates :
    Assemble(ReconstructFromCache(n)) \in {Staged(n, Jobs[log[n].job].chunks), <<>>}

(* "Fetch all block records in a range." *)
BlocksAreInRange == \A block \in FetchBlocks(1, 1) : block.height <= 1
=============================================================================
