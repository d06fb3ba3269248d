----------------------------- MODULE HostCapture -----------------------------
(****************************************************************************)
(* What the recorders that run beside an agent on the user's machine share: *)
(* the host they serve, the calls they have captured (numbered in that      *)
(* order), and the runtime controls that may tell them not to record.       *)
(****************************************************************************)
EXTENDS Recorder, RuntimeControls

CONSTANTS
  Host,           \* hosts whose recorder is looked at
  MaxCalls        \* bound: calls captured, for each host

ASSUME CapturedCallsAreBounded == MaxCalls \in [Host -> Nat]
ASSUME HostsAreRuntimes == Host \subseteq Runtime

VARIABLES
  host,           \* the host that runs on this machine
  captured,       \* number of calls captured
  discarded,      \* calls dropped because the runtime controls say so
  atRisk          \* calls the code may lose, with the reason

captureVars == <<host, captured, discarded, atRisk>>

Reason == {"overlap", "abandoned", "torn", "errored"}

CaptureInit ==
  /\ host \in Host
  /\ captured = 0
  /\ discarded = {}
  /\ atRisk = {}

Elements(s) == {s[i] : i \in DOMAIN s}
MayLose(calls, reasons) == atRisk' = atRisk \cup (calls \X reasons)

Holds(p, c) == p \in DOMAIN onchain /\ c \in Elements(onchain[p].calls)
OnChain(c) == \E p \in DOMAIN onchain : Holds(p, c)
=============================================================================
