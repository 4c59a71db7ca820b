------------------------------ MODULE MCSpeech ------------------------------
(***************************************************************************)
(* Small instances of SpeechWindow, ProviderCalls and RateWindow in one    *)
(* run.  The three share no variable, nor do the two halves of RateWindow  *)
(* share more than the clock, so their interleavings add nothing: part     *)
(* picks at the start the one that runs, and the others keep their initial *)
(* state.                                                                  *)
(***************************************************************************)
EXTENDS SpeechWindow, ProviderCalls, RateWindow

CONSTANTS t1, t2, t3, g1, r1, r2, k1

VARIABLE part

MCVars == <<part, spVars, pcVars, rwVars>>

MCInit ==
    /\ part \in {"window", "calls", "requests", "audio"}
    /\ SPInit /\ PCInit /\ RWInit

Running(p) == part = p /\ UNCHANGED part

Calls(A) == Running("calls") /\ A /\ UNCHANGED <<spVars, rwVars>>

MCNext ==
    \/ Running("window") /\ SPNext /\ UNCHANGED <<pcVars, rwVars>>
    \/ Calls(PCNext)
    \/ Running("requests") /\ RequestsNext /\ UNCHANGED <<spVars, pcVars>>
    \/ Running("audio") /\ AudioNext /\ UNCHANGED <<spVars, pcVars>>

MCSpec ==
    /\ MCInit /\ [][MCNext]_MCVars
    /\ \A c \in Callers : WF_MCVars(Calls(PCProgress(c)))

\* The variables of the three modules stay within their ranges: the history
\* of committed words and every limiter's window within their caps.
SpeechTypeOK == SPTypeOK /\ PCTypeOK /\ RWTypeOK
=============================================================================
