----------------------- MODULE ReestablishmentRoutine -----------------------
(***************************************************************************)
(* The routine the CU-CP runs for a UE after an RRC reestablishment        *)
(* (lib/cu_cp/routines/reestablishment_context_modification_routine.cpp):  *)
(* a coroutine that asks the CU-UP for new UL tunnels, the DU to set up    *)
(* the DRBs, the UE to reconfigure, and the CU-UP again.  A step is the     *)
(* code from one CORO_AWAIT_VALUE to the next; a message is the            *)
(* identifiers and the fields the routine reads.                           *)
(***************************************************************************)
EXTENDS Integers, Sequences, FiniteSets, FiniteSetsExt

CONSTANTS
    Sessions,           \* PDU session ids
    Drbs,               \* DRB ids
    UlParamCounts,      \* sizes of ul_up_transport_params the CU-UP answers with
    UpContexts,         \* what the UP resource manager may hold: session -> DRBs
    E1apResponses,      \* pdu_session_resource_modified_list the CU-UP answers with
    F1apResponses       \* UE context modification responses of the DU

VARIABLES
    pc,                                     \* where the coroutine is suspended
    up_context,                             \* rrc_ue_up_resource_manager
    bearer_context_modification_request,
    bearer_context_modification_response,
    ue_context_mod_request,                 \* its drbs_to_be_setup_mod_list
    ue_context_modification_response,
    rrc_reconfig_args,
    result,                                 \* "none" until the coroutine returns
    answers                                 \* history: who answered, and how

requests == <<bearer_context_modification_request, ue_context_mod_request, rrc_reconfig_args>>
responses == <<bearer_context_modification_response, ue_context_modification_response>>
vars == <<pc, up_context, requests, responses, result, answers>>

\* An answer of the CU-UP the routine can go on with, said without a walk.
E1apClean(resp) ==
    \A i \in resp : /\ ~i.drb_failed
                    /\ \A d \in i.drb_setup : ~d.flow_failed /\ d.nof_ul_params = 1

\* The fields of the messages the routine reads.
DrbSetupItems == [drb_id : Drbs, flow_failed : BOOLEAN, nof_ul_params : UlParamCounts]
ModifiedItems == [pdu_session_id : Sessions, drb_setup : SUBSET DrbSetupItems,
                  drb_failed : BOOLEAN, drb_modified : SUBSET Drbs]
UeContextModResponses == [drbs_setup : SUBSET Drbs, drbs_failed : BOOLEAN]
BearerRequests == [new_ul_tnl_info_required : BOOLEAN,
                   mod_list : SUBSET [pdu_session_id : Sessions, drbs : SUBSET Drbs]]
RrcReconfigArgs == [drbs : SUBSET Drbs, master_cell_group : BOOLEAN]

ASSUME /\ Sessions \subseteq Nat /\ Drbs \subseteq Nat
       /\ E1apResponses \subseteq SUBSET ModifiedItems
       /\ F1apResponses \subseteq UeContextModResponses
       /\ \A c \in UpContexts : DOMAIN c \subseteq Sessions /\ \A s \in DOMAIN c : c[s] \subseteq Drbs

Init ==
    /\ pc = "start"
    /\ up_context \in UpContexts
    /\ bearer_context_modification_request = [new_ul_tnl_info_required |-> FALSE, mod_list |-> {}]
    /\ bearer_context_modification_response = {}
    /\ ue_context_mod_request = {}
    /\ ue_context_modification_response = [drbs_setup |-> {}, drbs_failed |-> FALSE]
    /\ rrc_reconfig_args = [drbs |-> {}, master_cell_group |-> FALSE]
    /\ result = "none"
    /\ answers = <<>>

----------------------------------------------------------------------------
(* The two helpers of the routine. *)

\* A DRB the routine gives up on: failed QoS flows, or not exactly one UL tunnel.
DrbUnsupported(d) == d.flow_failed \/ d.nof_ul_params # 1

\* Mutant: the list of DRBs that failed is not looked at.
ItemFailsByDrbOnly(item) == \E d \in item.drb_setup : DrbUnsupported(d)

\* A session the walk stops at.
ItemFails(item) == item.drb_failed \/ \E d \in item.drb_setup : DrbUnsupported(d)

\* The DRBs of a session put into the request before the walk, in the order
\* of the ids, stops at a DRB it gives up on.
DrbsReached(item) ==
    LET bad == {d.drb_id : d \in {x \in item.drb_setup : DrbUnsupported(x)}}
    IN  {d.drb_id : d \in {x \in item.drb_setup : \A b \in bad : x.drb_id < b}}

\* generate_ue_context_modification_request: the sessions are walked in the
\* order of their ids up to the first that fails; the request keeps what was
\* put into it until then.
GenerateUeContextModificationRequest(req, list) ==
    LET failing == {i.pdu_session_id : i \in {x \in list : ItemFails(x)}}
        walked  == {i \in list : \A f \in failing : i.pdu_session_id <= f}
    IN  [ok  |-> failing = {},
         req |-> req \cup UNION {DrbsReached(i) : i \in walked}]

\* Mutant: a DRB the DU set up goes under every session, the look into the
\* session's drb_modified_list_ng_ran dropped.
GenerateBearerContextModificationOfAnySession(req, bearer_resp, ue_resp) ==
    [ok  |-> ~ue_resp.drbs_failed,
     req |-> IF ue_resp.drbs_failed THEN req
             ELSE [req EXCEPT !.mod_list =
                      {[pdu_session_id |-> s.pdu_session_id,
                        drbs |-> ue_resp.drbs_setup] : s \in bearer_resp}]]

\* generate_bearer_context_modification: for each session the CU-UP modified,
\* the DRBs the DU set up that are in the session's list of modified DRBs.
GenerateBearerContextModification(req, bearer_resp, ue_resp) ==
    [ok  |-> ~ue_resp.drbs_failed,
     req |-> IF ue_resp.drbs_failed THEN req
             ELSE [req EXCEPT !.mod_list =
                      {[pdu_session_id |-> s.pdu_session_id,
                        drbs |-> ue_resp.drbs_setup \cap s.drb_modified] : s \in bearer_resp}]]

\* The loop over get_pdu_sessions(): every session assigns radio_bearer_cfg
\* and non_crit_ext anew, so the arguments are those of the last session.
FillRrcReconfigArgs(args) ==
    IF DOMAIN up_context = {} THEN args
    ELSE [drbs |-> up_context[Max(DOMAIN up_context)], master_cell_group |-> TRUE]

----------------------------------------------------------------------------
(* The coroutine, from one suspension to the next. *)

Answered(peer, clean) == answers' = Append(answers, [peer |-> peer, clean |-> clean])

Return(ok) == pc' = "done" /\ result' = IF ok THEN "true" ELSE "false"

Start ==
    /\ pc = "start"
    /\ bearer_context_modification_request' =
           [bearer_context_modification_request EXCEPT !.new_ul_tnl_info_required = TRUE]
    /\ pc' = "await_e1ap"
    /\ UNCHANGED <<up_context, responses, ue_context_mod_request, rrc_reconfig_args,
                   result, answers>>

\* An answer of the CU-UP is kept and walked for the request to the DU.
BearerContextModificationResponse(resp, gen) ==
    /\ gen = GenerateUeContextModificationRequest(ue_context_mod_request, resp)
    /\ bearer_context_modification_response' = resp
    /\ ue_context_mod_request' = gen.req
    /\ Answered("cu_up", E1apClean(resp))
    /\ UNCHANGED <<up_context, bearer_context_modification_request,
                   ue_context_modification_response, rrc_reconfig_args>>

\* The first answer of the CU-UP cannot be used.
BearerModificationFailed(resp) ==
    \E gen \in [ok : {FALSE}, req : SUBSET Drbs] :
        pc = "await_e1ap" /\ BearerContextModificationResponse(resp, gen) /\ Return(FALSE)

\* The first answer of the CU-UP: the DU is asked to set up its DRBs.
BearerModified(resp) ==
    \E gen \in [ok : {TRUE}, req : SUBSET Drbs] :
        /\ pc = "await_e1ap" /\ BearerContextModificationResponse(resp, gen)
        /\ pc' = "await_f1ap" /\ UNCHANGED result

\* What the DU may answer to the request it got.
DuAnswers == {r \in F1apResponses : r.drbs_setup \subseteq ue_context_mod_request}

\* The answer of the DU is kept and matched with the first of the CU-UP.
UeContextModificationResponse(resp, gen) ==
    /\ pc = "await_f1ap"
    /\ resp \in DuAnswers
    /\ gen = GenerateBearerContextModification(bearer_context_modification_request,
                                               bearer_context_modification_response, resp)
    /\ ue_context_modification_response' = resp
    /\ bearer_context_modification_request' = gen.req
    /\ Answered("du", ~resp.drbs_failed)
    /\ UNCHANGED <<up_context, bearer_context_modification_response, ue_context_mod_request>>

UeContextModificationFailed(resp) ==
    \E gen \in [ok : {FALSE}, req : BearerRequests] :
        UeContextModificationResponse(resp, gen) /\ Return(FALSE) /\ UNCHANGED rrc_reconfig_args

\* The DU set the DRBs up: the UE is sent an RRC reconfiguration.
UeContextModified(resp) ==
    \E gen \in [ok : {TRUE}, req : BearerRequests] :
        /\ UeContextModificationResponse(resp, gen)
        /\ rrc_reconfig_args' = FillRrcReconfigArgs(rrc_reconfig_args)
        /\ pc' = "await_rrc" /\ UNCHANGED result

RrcReconfigurationFailed ==
    /\ pc = "await_rrc"
    /\ Return(FALSE)
    /\ Answered("ue", FALSE)
    /\ UNCHANGED <<up_context, requests, responses>>

\* The UE reconfigured: the CU-UP is sent the request prepared before.
RrcReconfigured ==
    /\ pc = "await_rrc"
    /\ pc' = "await_e1ap_again"
    /\ Answered("ue", TRUE)
    /\ UNCHANGED <<up_context, requests, responses, result>>

\* The last answer of the CU-UP decides what the routine returns.
LastBearerModification(resp) ==
    \E gen \in [ok : BOOLEAN, req : SUBSET Drbs] :
        pc = "await_e1ap_again" /\ BearerContextModificationResponse(resp, gen) /\ Return(gen.ok)

Next ==
    \/ Start
    \/ \E resp \in E1apResponses :
          \/ BearerModificationFailed(resp)
          \/ BearerModified(resp)
          \/ LastBearerModification(resp)
    \/ \E resp \in F1apResponses :
          \/ UeContextModificationFailed(resp)
          \/ UeContextModified(resp)
    \/ RrcReconfigurationFailed
    \/ RrcReconfigured

Spec == Init /\ [][Next]_vars

----------------------------------------------------------------------------
(* Properties *)

\* The variables keep their shape: the messages hold the fields the routine
\* reads, and operator() is at one of its awaits or has returned.
TypeOK ==
    /\ pc \in {"start", "await_e1ap", "await_f1ap", "await_rrc", "await_e1ap_again", "done"}
    /\ up_context \in UpContexts
    /\ bearer_context_modification_request \in BearerRequests
    /\ bearer_context_modification_response \in SUBSET ModifiedItems
    /\ ue_context_mod_request \subseteq Drbs
    /\ ue_context_modification_response \in UeContextModResponses
    /\ rrc_reconfig_args \in RrcReconfigArgs
    /\ result \in {"none", "true", "false"}
    /\ answers \in Seq([peer : {"cu_up", "du", "ue"}, clean : BOOLEAN])

\* The three messages of the middle of the routine fit: while the UE is
\* reconfigured and when the CU-UP is asked the second time, the request
\* generate_bearer_context_modification built names the PDU sessions of the
\* CU-UP's first answer, a DRB under a session exactly when the DU set it up
\* and the CU-UP listed it as modified for that session, and no DRB the DU
\* was not asked for; the DU and the CU-UP had failed nothing.
SecondRequestFollowsAnswers ==
    pc \in {"await_rrc", "await_e1ap_again"} =>
        LET first == bearer_context_modification_response
            du    == ue_context_modification_response
            told  == UNION {{m.pdu_session_id} \X m.drbs :
                               m \in bearer_context_modification_request.mod_list}
        IN  /\ E1apClean(first) /\ ~du.drbs_failed
            /\ {m.pdu_session_id : m \in bearer_context_modification_request.mod_list}
                   = {i.pdu_session_id : i \in first}
            /\ told = UNION {{i.pdu_session_id} \X (du.drbs_setup \cap i.drb_modified) :
                                i \in first}
            /\ {td[2] : td \in told} \subseteq ue_context_mod_request

Exchanges == <<"cu_up", "du", "ue", "cu_up">>

Promise == INSTANCE ContextModification WITH
    confirmed <- Cardinality({i \in DOMAIN answers : answers[i].clean}),
    outcome   <- CASE result = "none"  -> "pending"
                   [] result = "true"  -> "ok"
                   [] result = "false" -> "failed"

\* The routine implements the context modification its caller relies on:
\* operator() returns true in the step in which the fourth answer turns out
\* usable, after three usable ones; it returns false on the first answer
\* with a failed DRB, a failed QoS flow, a wrong number of UL tunnels or a
\* failed reconfiguration, and no peer is asked after that (the checks of
\* generate_ue_context_modification_request and
\* generate_bearer_context_modification, and the four early returns).
ImplementsContextModification == Promise!Spec

\* The RRC reconfiguration sent to the UE (the loop over get_pdu_sessions()
\* that fills rrc_reconfig_args) adds the DRBs of every PDU session of the
\* UE to the radio bearer configuration.
UeGetsEveryDrb ==
    pc \in {"await_rrc", "await_e1ap_again"} =>
        rrc_reconfig_args.drbs = UNION {up_context[s] : s \in DOMAIN up_context}
=============================================================================
