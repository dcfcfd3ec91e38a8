------------------------- MODULE MCTransactionReplay -------------------------
(* Small instances of TransactionReplay for TLC. *)
EXTENDS TransactionReplay

T(stream, sequence, id, expires) ==
    [stream |-> stream, sequence |-> sequence, id |-> id, expires |-> expires]

\* Reordering, a gap past the window and a fork at sequence 0.
WindowTxs == {T("r", 0, "a", 1), T("r", 0, "b", 0), T("r", 1, "a", 0), T("r", 3, "a", 1)}

\* Mail of one stream, a message of it that comes live as well.
MailTxs == {T("r", 0, "a", 1), T("r", 1, "a", 0)}
BothTxs == {T("r", 1, "a", 0)}

\* Two streams that compete for one slot.
RivalTxs == {T("r", 0, "a", 2), T("q", 0, "a", 2)}
=============================================================================
