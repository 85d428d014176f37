---------------------------- MODULE MCDrivers ----------------------------
(* The Ethernet driver, the bad block management and the reverse lookup    *)
(* share no state.  A run picks the parts it is about (Focus), and in each *)
(* behaviour one of them moves while the others stay as they begin.        *)
EXTENDS FeEth, Bmt, RrDns

CONSTANT Focus

VARIABLE focus

vars == <<feVars, bmtVars, dnsVars, focus>>

Init ==
  /\ FeInit /\ BmtInit /\ DnsInit
  /\ focus \in Focus
  /\ focus # "bmt" => marked = {}

EthStep == focus = "eth" /\ FeNext /\ UNCHANGED <<bmtVars, dnsVars, focus>>
BmtStep == focus = "bmt" /\ BmtNext /\ UNCHANGED <<feVars, dnsVars, focus>>
DnsStep == focus = "dns" /\ DnsNext /\ UNCHANGED <<feVars, bmtVars, focus>>

Next == EthStep \/ BmtStep \/ DnsStep

Spec == Init /\ [][Next]_vars

(* FeFairness and DnsFairness, each for the part that moves.               *)
Eth(A) == focus = "eth" /\ A /\ UNCHANGED <<bmtVars, dnsVars, focus>>
Dns(A) == focus = "dns" /\ A /\ UNCHANGED <<feVars, bmtVars, focus>>

Fairness ==
  /\ WF_vars(Eth(XmitStep)) /\ WF_vars(Eth(batch = "open" /\ XmitNext))
  /\ WF_vars(Eth(PollStep)) /\ WF_vars(Eth(IrqSchedule))
  /\ WF_vars(Eth(TxTimeout)) /\ WF_vars(Eth(Work)) /\ WF_vars(Eth(ResetBegin))
  /\ WF_vars(Eth(ctl = "failed" /\ CloseBegin))
  /\ WF_vars(Eth(StopStep)) /\ WF_vars(Eth(OpenStep))
  /\ WF_vars(Dns(Ask \/ Defer)) /\ WF_vars(Dns(Timeout))

FairSpec == Spec /\ Fairness
=============================================================================
