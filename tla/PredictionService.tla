-------------------------- MODULE PredictionService --------------------------
(* The production model: the one-time packaging of the selected ridge model   *)
(* and the prediction API that serves the packaged artifact. Every request    *)
(* ends with an audit row; a response whose audit row cannot be committed is  *)
(* replaced. Requests of one process interleave at their awaits: the load of  *)
(* the artifact and the commit of the audit row.                              *)
(*                                                                            *)
(* A prediction is a function of the artifact and the feature vector, and is  *)
(* represented by the two. Hash checks of a stored artifact do not fail:      *)
(* artifact rows are never updated.                                           *)
EXTENDS Naturals, Sequences, FiniteSets

CONSTANTS
    Clients,      \* connections to the API
    Packagers,    \* sessions that run the packaging
    Requests,     \* requests a client may send: see RequestRows
    MaxRequests,  \* bound on requests
    MaxRestarts   \* bound on restarts of the API process

VARIABLES
    holdoutReported, \* experiment and official holdout report are stored
    artifacts,       \* model_inference_artifacts, by the packager that fitted them
    packager,        \* what each packaging session does
    packaged,        \* what the packaging returned, with the created flag
    handling,        \* the request each client waits for
    received,        \* requests so far
    restarts,
    audits,          \* prediction_api_audits
    delivered,       \* responses sent: [id, request, answer]
    counters         \* PredictionAPIMetrics of the running process

predictionVars == <<holdoutReported, artifacts, packager, packaged, handling, received,
                    restarts, audits, delivered, counters>>
packagingVars == <<holdoutReported, artifacts, packager, packaged>>
servingVars == <<handling, received, restarts, audits, delivered, counters>>

NoArtifact == "none"
NoPrediction == << >>
Waiting == [step |-> "idle"]
Zero == [requests |-> 0, successes |-> 0, predictions |-> 0]

PredictionInit ==
    /\ holdoutReported = FALSE /\ artifacts = {} /\ packaged = {}
    /\ packager = [p \in Packagers |-> "idle"]
    /\ handling = [c \in Clients |-> Waiting]
    /\ received = 0 /\ restarts = 0 /\ audits = {} /\ delivered = {} /\ counters = Zero

-----------------------------------------------------------------------------
(* package_selected_ridge_inference_once.                                     *)

\* The holdout evaluation of ResearchChain commits its report.
ReportHoldout ==
    /\ ~ holdoutReported /\ holdoutReported' = TRUE
    /\ UNCHANGED <<artifacts, packager, packaged, servingVars>>

\* An existing artifact is verified and returned; otherwise the sources are
\* read and the model is fitted.
StartPackaging(p) ==
    /\ packager[p] = "idle"
    /\ IF artifacts # {}
       THEN /\ packaged' = packaged \cup {[artifact |-> a, created |-> FALSE] : a \in artifacts}
            /\ packager' = packager
       ELSE /\ holdoutReported
            /\ packager' = [packager EXCEPT ![p] = "fit"]
            /\ UNCHANGED packaged
    /\ UNCHANGED <<holdoutReported, artifacts, servingVars>>

\* Mutant: the experiment's artifact is not unique.
AnyExperiment == TRUE

\* uq_model_inference_artifacts_experiment
UniqueExperiment == artifacts = {}

\* The commit may succeed although its acknowledgement is lost.
CommitArtifact(p) ==
    /\ packager[p] = "fit"
    /\ packager' = [packager EXCEPT ![p] = "idle"]
    /\ \E acknowledged \in BOOLEAN :
         IF UniqueExperiment
         THEN /\ artifacts' = artifacts \cup {p}
              /\ packaged' = IF acknowledged
                             THEN packaged \cup {[artifact |-> p, created |-> TRUE]}
                             ELSE packaged
         ELSE UNCHANGED <<artifacts, packaged>>
    /\ UNCHANGED <<holdoutReported, servingVars>>

\* Differing evidence, an error or a lost session; the operator may call again.
AbandonPackaging(p) ==
    /\ packager[p] = "fit"
    /\ packager' = [packager EXCEPT ![p] = "idle"]
    /\ UNCHANGED <<holdoutReported, artifacts, packaged, servingVars>>

-----------------------------------------------------------------------------
(* The routes. Of a request the model keeps its path, its method, the first   *)
(* check its body fails ("none" if it passes) and its feature vector. The     *)
(* preflight request of an allowed origin is answered by CORSMiddleware.      *)

NeedArtifact == {"health", "model", "dashboard", "predict"}
Routes == NeedArtifact \cup {"version", "metrics", "resources"}
Allowed(path) == IF path = "predict" THEN "POST" ELSE "GET"
\* The checks of predict and ProductionPredictionService.predict, in order.
ServiceFaults == {"FEATURE_VALUE_INVALID", "INVALID_PREDICTION_TIMESTAMP",
                  "FEATURE_COUNT_MISMATCH", "FEATURE_ORDER_MISMATCH",
                  "FEATURE_NAME_MISMATCH", "SCHEMA_HASH_MISMATCH"}
BodyFaults == {"none", "REQUEST_TOO_LARGE", "REQUEST_SCHEMA_INVALID", "API_VERSION_MISMATCH"}
              \cup ServiceFaults
RequestRows == [path : Routes \cup {"unknown", "overlong"},
                method : {"GET", "POST", "PREFLIGHT", "OTHER"},
                fault : BodyFaults, features : Nat]

ASSUME PredictionAssumption == Requests \subseteq RequestRows

Refused(status, code, a) ==
    [status |-> status, code |-> code, artifact |-> a, prediction |-> NoPrediction]
Succeeded(a, p) == [status |-> 200, code |-> "none", artifact |-> a, prediction |-> p]
Unreadable == Refused(503, "ARTIFACT_UNAVAILABLE", NoArtifact)

\* What is answered before the artifact is needed; metrics reads the counters.
NeedsArtifact(r) ==
    /\ r.fault # "REQUEST_TOO_LARGE"
    /\ r.path \in NeedArtifact /\ r.method = Allowed(r.path)
    /\ r.path = "predict" => r.fault \in {"none"} \cup ServiceFaults
AnswerAtOnce(r) ==
    CASE r.fault = "REQUEST_TOO_LARGE" -> Refused(413, r.fault, NoArtifact)
      [] r.method = "PREFLIGHT" -> Succeeded(NoArtifact, NoPrediction)
      [] r.path \notin Routes -> Refused(404, "ROUTE_NOT_FOUND", NoArtifact)
      [] r.method # Allowed(r.path) -> Refused(405, "METHOD_NOT_ALLOWED", NoArtifact)
      [] r.path = "predict" -> Refused(422, r.fault, NoArtifact)
      [] OTHER -> Succeeded(NoArtifact, NoPrediction)

AnswerWith(r, a) ==
    CASE r.path = "predict" /\ r.fault # "none" -> Refused(422, r.fault, a)
      [] r.path = "predict" -> Succeeded(a, <<a, r.features>>)
      [] OTHER -> Succeeded(a, NoPrediction)

\* call_next returns the answer, or it raises and the answer is an internal
\* error. What the handler had noted of the artifact, and perhaps of the
\* prediction, stays with the request.
CallNext(r, answer) ==
    {answer} \cup
    {[status |-> 500, code |-> "INTERNAL_ERROR", artifact |-> answer.artifact, prediction |-> p] :
        p \in IF r.fault = "REQUEST_TOO_LARGE" THEN {} ELSE {NoPrediction, answer.prediction}}

Handle(c, h) == handling' = [handling EXCEPT ![c] = h]
Answered(id, r, answer) == [step |-> "audit", id |-> id, request |-> r, answer |-> answer]

Receive(c, r) ==
    /\ handling[c].step = "idle" /\ received < MaxRequests
    /\ received' = received + 1
    /\ \/ NeedsArtifact(r) /\ Handle(c, [step |-> "load", id |-> received', request |-> r])
       \/ /\ ~ NeedsArtifact(r)
          /\ \E answer \in CallNext(r, AnswerAtOnce(r)) : Handle(c, Answered(received', r, answer))
    /\ UNCHANGED <<restarts, audits, delivered, counters, packagingVars>>

\* load_production_artifact: .one() over all artifacts. The dashboard goes on
\* to read its snapshot in a session of its own.
LoadArtifact(c) ==
    /\ handling[c].step = "load"
    /\ LET h == handling[c]
       IN  \/ \E answer \in CallNext(h.request, Unreadable) :
                Handle(c, Answered(h.id, h.request, answer))
           \/ \E a \in artifacts :
                /\ Cardinality(artifacts) = 1
                /\ h.request.path # "dashboard"
                /\ \E answer \in CallNext(h.request, AnswerWith(h.request, a)) :
                     Handle(c, Answered(h.id, h.request, answer))
           \/ /\ Cardinality(artifacts) = 1
              /\ h.request.path = "dashboard"
              /\ Handle(c, [step |-> "dashboard", id |-> h.id, request |-> h.request])
    /\ UNCHANGED <<received, restarts, audits, delivered, counters, packagingVars>>

LoadDashboard(c) ==
    /\ handling[c].step = "dashboard"
    /\ LET h == handling[c]
       IN  \E a \in artifacts :
             \E loaded \in {Succeeded(a, NoPrediction),
                            Refused(503, "DASHBOARD_DATA_UNAVAILABLE", a)} :
               \E answer \in CallNext(h.request, loaded) :
                 Handle(c, Answered(h.id, h.request, answer))
    /\ UNCHANGED <<received, restarts, audits, delivered, counters, packagingVars>>

\* ck_prediction_api_audits_integrity and the width of request_path.
Auditable(r) == r.method \in {"GET", "POST"} /\ r.path # "overlong"

\* Mutant: a response whose audit row failed is sent as it is.
KeepAnswer(answer) == answer

Unaudited(answer) == Refused(503, "AUDIT_PERSISTENCE_UNAVAILABLE", answer.artifact)

\* persist_prediction_api_audit, the replacement of the response if it raised,
\* the counters and the response. The counters take the final status, but the
\* prediction flag of the handler.
WriteAudit(c) ==
    /\ handling[c].step = "audit"
    /\ LET h == handling[c]
       IN  \E committed, acknowledged \in BOOLEAN :
             LET sent == IF acknowledged THEN h.answer ELSE Unaudited(h.answer)
             IN  /\ committed => Auditable(h.request)
                 /\ acknowledged => committed
                 /\ audits' = IF committed
                              THEN audits \cup {[id |-> h.id, request |-> h.request, answer |-> h.answer]}
                              ELSE audits
                 /\ delivered' = delivered \cup {[id |-> h.id, request |-> h.request, answer |-> sent]}
                 /\ counters' =
                      [requests |-> counters.requests + 1,
                       successes |-> counters.successes + (IF sent.status < 400 THEN 1 ELSE 0),
                       predictions |-> counters.predictions +
                                       (IF h.answer.prediction # NoPrediction THEN 1 ELSE 0)]
    /\ Handle(c, Waiting)
    /\ UNCHANGED <<received, restarts, packagingVars>>

\* The API process restarts: waiting clients get no answer.
RestartAPI ==
    /\ restarts < MaxRestarts /\ restarts' = restarts + 1
    /\ handling' = [c \in Clients |-> Waiting] /\ counters' = Zero
    /\ UNCHANGED <<received, audits, delivered, packagingVars>>

PredictionNext ==
    \/ ReportHoldout \/ RestartAPI
    \/ \E p \in Packagers : StartPackaging(p) \/ CommitArtifact(p) \/ AbandonPackaging(p)
    \/ \E c \in Clients :
         \/ \E r \in Requests : Receive(c, r)
         \/ LoadArtifact(c) \/ LoadDashboard(c) \/ WriteAudit(c)

PredictionSpec == PredictionInit /\ [][PredictionNext]_predictionVars

-----------------------------------------------------------------------------
(* Properties.                                                                *)

Codes == BodyFaults \cup {"ROUTE_NOT_FOUND", "METHOD_NOT_ALLOWED", "ARTIFACT_UNAVAILABLE",
                          "INTERNAL_ERROR", "DASHBOARD_DATA_UNAVAILABLE",
                          "AUDIT_PERSISTENCE_UNAVAILABLE"}
Answers == [status : {200, 404, 405, 413, 422, 500, 503}, code : Codes,
            artifact : Packagers \cup {NoArtifact},
            prediction : {NoPrediction} \cup (Packagers \X Nat)]
AuditRows == [id : Nat \ {0}, request : RequestRows, answer : Answers]
PackagedRows == [artifact : Packagers, created : BOOLEAN]
PredictionTypeOK ==
    /\ holdoutReported \in BOOLEAN /\ artifacts \subseteq Packagers
    /\ packager \in [Packagers -> {"idle", "fit"}]
    /\ packaged \subseteq PackagedRows
    /\ \A c \in Clients : handling[c].step \in {"idle", "load", "dashboard", "audit"}
    /\ audits \subseteq AuditRows /\ delivered \subseteq AuditRows
    /\ counters \in [requests : Nat, successes : Nat, predictions : Nat]

\* A response is sent as the handler made it only if its audit row is stored,
\* with the same status, artifact and prediction; audits fail, their
\* acknowledgement is lost, the process restarts, and some requests can never
\* be audited. The counters never claim a success that no row confirms
\* (observe_and_limit).
AnswersAreAudited ==
    /\ \A d \in delivered :
         d.answer.code # "AUDIT_PERSISTENCE_UNAVAILABLE" => d \in audits
    /\ counters.successes <= Cardinality({d \in audits : d.answer.status < 400})

\* However often and by however many sessions the model is packaged, there is
\* one artifact: every packaging returns it, every response and audit row that
\* names an artifact names it, and it predicts (the unique experiment, .one()).
OneArtifactServes ==
    \A x, y \in ({r.artifact : r \in packaged}
                \cup {d.answer.artifact : d \in audits \cup delivered}) \ {NoArtifact} :
        x = y /\ artifacts = {x}
=============================================================================
