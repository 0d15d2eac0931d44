------------------------------- MODULE Evidence -------------------------------
(***************************************************************************)
(* What a valuation asks of the providers and leaves behind: the route and *)
(* its telemetry, the client that fetches the statements, and the store of *)
(* the raw payloads the client hands over (FMPClient._capture).            *)
(*                                                                         *)
(* A payload may be handed over at any time and nothing comes back: the    *)
(* request that hands it over waits for the store but neither sees its     *)
(* errors nor reads it.  To the route, the client is a load that receives  *)
(* answers and ends.  So the three are observed apart: a behaviour shows   *)
(* the steps of one of them.                                               *)
(***************************************************************************)
EXTENDS ProviderClient, RawStore, Valuation

VARIABLE focus  \* the part whose steps a behaviour shows

evidenceVars == <<vars, rawVars, valuationVars, focus>>

EvidenceInit ==
    /\ focus \in {"client", "store", "valuation"}
    /\ Init
    /\ focus # "client" => filed = CHOOSE lists \in [Statements -> {<<>>}] : TRUE
    /\ focus # "client" => profile = CHOOSE p \in Profiles : TRUE
    /\ RawInit
    /\ ValuationInit

ClientTurn(step) ==
    focus = "client" /\ step /\ UNCHANGED <<rawVars, valuationVars, focus>>

EvidenceNext ==
    \/ ClientTurn(Next)
    \/ focus = "store" /\ RawNext /\ UNCHANGED <<vars, valuationVars, focus>>
    \/ focus = "valuation" /\ ValuationNext /\ UNCHANGED <<vars, rawVars, focus>>

EvidenceSpec == EvidenceInit /\ [][EvidenceNext]_evidenceVars

(* The fairness of FairSpec: the event loop goes on.                        *)
FairEvidenceSpec == EvidenceSpec /\ WF_evidenceVars(ClientTurn(ClientStep))

=============================================================================
