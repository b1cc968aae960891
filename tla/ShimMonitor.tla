----------------------------- MODULE ShimMonitor -----------------------------
(***************************************************************************)
(* NoopShimMonitor: the reader of posted withdrawals.  It polls and        *)
(* catches up exactly as BridgeMonitor does (the code is a copy), and also *)
(* offers the messages in pages, newest first, through get_withdrawals.    *)
(***************************************************************************)
EXTENDS EventMonitor

CONSTANT PageSize    \* the limit of get_withdrawals

ShimConstants == MonitorConstants /\ PageSize \in Nat \ {0}

ASSUME ShimAssumption == ShimConstants

ShimStart      == Start
ShimPollOnce   == PollOnce
ShimProcess    == Process
ShimPollError  == PollError
ShimStop       == Stop
ShimFetchPage  == FetchPage
ShimFetchReturn == FetchReturn

NextShimLive ==
  /\ reader.mode = "live"
  /\ ShimStart \/ ShimPollOnce \/ ShimProcess \/ ShimPollError \/ ShimStop

NextShimCatchUp ==
  /\ reader.mode = "catch_up"
  /\ FetchSince \/ ShimFetchPage \/ ShimFetchReturn \/ FetchError
-----------------------------------------------------------------------------
(* A caller goes through all pages: `before' is the cursor, `after' the    *)
(* newest transaction when the first page was asked for.                   *)
FirstPage ==
  /\ reader.state = "stopped"
  /\ reader' = [reader EXCEPT !.state = "paging", !.before = Top, !.after = Len(chain)]
  /\ delivered' = <<>>
  /\ UNCHANGED <<chain, faults>>

(* Faulty: the cursor is the extra signature. *)
GetWithdrawalsSkipping ==
  LET sigs == Signatures(0, reader.before, PageSize + 1)
      page == SubSeq(sigs, 1, PageSize)
      more == Len(sigs) > PageSize
  IN  /\ reader.state = "paging"
      /\ delivered' = delivered \o Reported(IF more THEN page ELSE sigs, Events)
      /\ reader' = IF more THEN [reader EXCEPT !.before = LastOf(sigs)]
                   ELSE [reader EXCEPT !.state = "done"]
      /\ UNCHANGED <<chain, faults>>

(* get_withdrawals: one signature more than the page holds tells whether   *)
(* there is another page; the cursor is the last signature of the page,    *)
(* whether it held a message or not.  (After an RPC error the caller asks  *)
(* for the same page again.)                                               *)
GetWithdrawals ==
  LET sigs == Signatures(0, reader.before, PageSize + 1)
      more == Len(sigs) > PageSize
      page == IF more THEN SubSeq(sigs, 1, PageSize) ELSE sigs
  IN  /\ reader.state = "paging"
      /\ delivered' = delivered \o Reported(page, Events)
      /\ reader' = IF more THEN [reader EXCEPT !.before = LastOf(page)]
                   ELSE [reader EXCEPT !.state = "done"]
      /\ UNCHANGED <<chain, faults>>

PagesDone ==
  /\ reader.state = "done"
  /\ reader' = [reader EXCEPT !.state = "stopped"]
  /\ UNCHANGED <<chain, delivered, faults>>

NextPages ==
  /\ reader.mode = "pages"
  /\ FirstPage \/ GetWithdrawals \/ PagesDone

NextShim ==
  reader.monitor = "shim" /\ (NextShimLive \/ NextShimCatchUp \/ NextPages)

MonitorNext == MonitoredTransaction \/ NextBridge \/ NextShim

MonitorSpec == MonitorInit /\ [][MonitorNext]_<<chain, monitorVars>>

(* Going through the pages yields every message that was there when the    *)
(* first page was fetched, newest first and each once, although new ones   *)
(* arrive between the pages and most transactions hold no message.         *)
PagesAreComplete ==
  reader.state = "done" =>
    Decreasing(delivered) /\ Range(delivered) = Seen
=============================================================================
