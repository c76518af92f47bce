------------------------------- MODULE Processor -------------------------------
(* The TrustRank processor and its helpers, part by part: identity and wallet    *)
(* ownership (AgentIdentity), the scale of a tag pair and its corrections         *)
(* (TagScale), the category of one feedback (Triage) and the decoding of          *)
(* metadata (Decoder). The parts share no variable, so a behaviour takes one of    *)
(* them and leaves the others as they are.                                        *)
EXTENDS AgentIdentity, TagScale, Triage, Decoder

VARIABLE part           \* the part a behaviour is about

procVars == <<part, vars, scaleVars, triageVars, decoderVars>>

Parts == {"identity", "scale", "triage", "decoder"}

\* The parts a behaviour is not about keep their first initial state.
ProcInit ==
    /\ part \in Parts
    /\ Init /\ ScaleInit /\ DecoderInit
    /\ TriageInit
    /\ part # "triage" => item = CHOOSE i \in [tags : TagPairs, value : Amounts, numeric : BOOLEAN] : TRUE

IdentityPart == part = "identity" /\ Next /\ UNCHANGED <<part, scaleVars, triageVars, decoderVars>>
ScalePart == part = "scale" /\ ScaleNext /\ UNCHANGED <<part, vars, triageVars, decoderVars>>
TriagePart == part = "triage" /\ TriageNext /\ UNCHANGED <<part, vars, scaleVars, decoderVars>>
DecoderPart == part = "decoder" /\ DecoderNext /\ UNCHANGED <<part, vars, scaleVars, triageVars>>

ProcNext == IdentityPart \/ ScalePart \/ TriagePart \/ DecoderPart

ProcPass == part = "identity" /\ PassStep /\ UNCHANGED <<part, scaleVars, triageVars, decoderVars>>

\* The ticker of the processor starts a pass for ever and a pass that runs goes on.
ProcSpec == ProcInit /\ [][ProcNext]_procVars /\ WF_procVars(ProcPass)
================================================================================
