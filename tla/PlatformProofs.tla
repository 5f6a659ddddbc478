--------------------------- MODULE PlatformProofs ----------------------------
(* What the platform answers, and the components side by side. The prediction *)
(* service: one artifact behind every answer and an audit row behind every    *)
(* answer that is sent as made, for any clients, packagers and requests. The  *)
(* historical reports: the verdict about a settled cutoff stands, for any     *)
(* timeframes, pages, acquisitions, lags and cutoffs, whatever is committed   *)
(* while it is built and afterwards; outcomes alone may be added to its       *)
(* evidence. The platform: its behaviours are behaviours of each component,   *)
(* and its tables have the types the components give them.                    *)
EXTENDS Platform, DailyProofs, IntradayProofs, Extremes, FiniteSetTheorems, TLAPS

-----------------------------------------------------------------------------
(* One artifact.                                                              *)

Known == artifacts \cup {NoArtifact}

\* Every answer, made or sent, names the one artifact there is, or none.
NamesTheArtifact ==
    /\ handling = [c \in Clients |-> handling[c]]
    /\ \A x, y \in artifacts : x = y
    /\ \A r \in packaged : r.artifact \in artifacts
    /\ \A c \in Clients : handling[c].step = "audit" => handling[c].answer.artifact \in Known
    /\ \A d \in audits \cup delivered : d.answer.artifact \in Known

\* What the handlers put into an answer.
LEMMA AnswersName ==
    ASSUME NEW r, NEW a, NEW answer
    PROVE  /\ AnswerAtOnce(r).artifact = NoArtifact
           /\ Unreadable.artifact = NoArtifact
           /\ AnswerWith(r, a).artifact = a
           /\ Unaudited(answer).artifact = answer.artifact
           /\ Unaudited(answer).status = 503
           /\ Unaudited(answer).code = "AUDIT_PERSISTENCE_UNAVAILABLE"
  BY DEF AnswerAtOnce, Unreadable, AnswerWith, Unaudited, Refused, Succeeded

\* Whether the handler answers or raises, the artifact it noted stays.
LEMMA CallNextNames ==
    ASSUME NEW r, NEW answer, NEW sent \in CallNext(r, answer)
    PROVE  sent.artifact = answer.artifact
  BY DEF CallNext

\* A client's next state replaces its own handling only.
LEMMA HandleStep ==
    ASSUME handling = [c \in Clients |-> handling[c]], NEW c \in Clients, NEW h, Handle(c, h)
    PROVE  /\ handling' = [e \in Clients |-> handling'[e]]
           /\ handling'[c] = h
           /\ \A e \in Clients \ {c} : handling'[e] = handling[e]
  BY DEF Handle

\* A handling step that names the artifact or nothing keeps the invariant.
LEMMA HandlingNames ==
    ASSUME NamesTheArtifact, NEW c \in Clients, NEW h, Handle(c, h),
           h.step = "audit" => h.answer.artifact \in Known,
           UNCHANGED <<artifacts, packaged, audits, delivered>>
    PROVE  NamesTheArtifact'
  BY HandleStep DEF NamesTheArtifact, Known

LEMMA PackagingNames ==
    ASSUME NamesTheArtifact, NEW p \in Packagers,
           ReportHoldout \/ StartPackaging(p) \/ CommitArtifact(p) \/ AbandonPackaging(p)
    PROVE  NamesTheArtifact'
  <1>1. UNCHANGED <<handling, audits, delivered>>
    BY DEF ReportHoldout, StartPackaging, CommitArtifact, AbandonPackaging, servingVars
  <1>2. CASE ReportHoldout \/ StartPackaging(p) \/ AbandonPackaging(p)
    <2>1. artifacts' = artifacts
      BY <1>2 DEF ReportHoldout, StartPackaging, AbandonPackaging
    <2>2. \A r \in packaged' : r.artifact \in artifacts
      BY <1>2 DEF ReportHoldout, StartPackaging, AbandonPackaging, NamesTheArtifact
    <2> QED
      BY <1>1, <2>1, <2>2 DEF NamesTheArtifact, Known
  <1>3. CASE CommitArtifact(p) /\ artifacts = {}
    <2>1. artifacts' = {p}
      BY <1>3 DEF CommitArtifact, UniqueExperiment
    <2>2. \A r \in packaged' : r \in packaged \/ r.artifact = p
      BY <1>3 DEF CommitArtifact, UniqueExperiment
    <2> QED
      BY <1>1, <1>3, <2>1, <2>2 DEF NamesTheArtifact, Known
  <1>4. CASE CommitArtifact(p) /\ artifacts # {}
    <2>1. UNCHANGED <<artifacts, packaged>>
      BY <1>4 DEF CommitArtifact, UniqueExperiment
    <2> QED
      BY <1>1, <2>1 DEF NamesTheArtifact, Known
  <1> QED
    BY <1>2, <1>3, <1>4

LEMMA ServingNames ==
    ASSUME NamesTheArtifact, NEW c \in Clients,
           RestartAPI \/ (\E r \in Requests : Receive(c, r))
           \/ LoadArtifact(c) \/ LoadDashboard(c) \/ WriteAudit(c)
    PROVE  NamesTheArtifact'
  <1>1. CASE RestartAPI
    BY <1>1 DEF RestartAPI, packagingVars, Waiting, NamesTheArtifact, Known
  <1>2. ASSUME NEW r \in Requests, Receive(c, r) PROVE NamesTheArtifact'
    <2>1. PICK h : Handle(c, h) /\ (h.step = "audit" => h.answer.artifact = NoArtifact)
      <3>1. CASE NeedsArtifact(r)
        BY <1>2, <3>1 DEF Receive
      <3>2. CASE ~ NeedsArtifact(r)
        <4>1. PICK answer \in CallNext(r, AnswerAtOnce(r)) :
                Handle(c, Answered(received', r, answer))
          BY <1>2, <3>2 DEF Receive
        <4>2. answer.artifact = NoArtifact
          BY AnswersName, CallNextNames
        <4> QED
          BY <4>1, <4>2 DEF Answered
      <3> QED BY <3>1, <3>2
    <2> QED
      BY <1>2, <2>1, HandlingNames DEF Receive, packagingVars, Known
  <1>3. ASSUME NEW answer, answer.artifact \in Known, UNCHANGED <<audits, delivered>>,
               UNCHANGED packagingVars,
               \E sent \in CallNext(handling[c].request, answer) :
                 Handle(c, Answered(handling[c].id, handling[c].request, sent))
        PROVE  NamesTheArtifact'
    <2>1. PICK sent \in CallNext(handling[c].request, answer) :
            Handle(c, Answered(handling[c].id, handling[c].request, sent))
      BY <1>3
    <2>2. sent.artifact \in Known
      BY <1>3, CallNextNames
    <2> QED
      BY <1>3, <2>1, <2>2, HandlingNames DEF packagingVars, Answered
  <1>4. CASE LoadArtifact(c) \/ LoadDashboard(c)
    <2>1. UNCHANGED <<audits, delivered>> /\ UNCHANGED packagingVars
      BY <1>4 DEF LoadArtifact, LoadDashboard
    <2>2. CASE Handle(c, [step |-> "dashboard", id |-> handling[c].id,
                          request |-> handling[c].request])
      BY <2>1, <2>2, HandlingNames DEF packagingVars
    <2>3. CASE ~ Handle(c, [step |-> "dashboard", id |-> handling[c].id,
                            request |-> handling[c].request])
      <3>1. PICK answer :
              /\ answer.artifact \in Known
              /\ \E sent \in CallNext(handling[c].request, answer) :
                   Handle(c, Answered(handling[c].id, handling[c].request, sent))
        <4>1. Unreadable.artifact \in Known
          BY AnswersName DEF Known
        <4>2. \A a \in artifacts :
                /\ AnswerWith(handling[c].request, a).artifact \in Known
                /\ Succeeded(a, NoPrediction).artifact \in Known
                /\ Refused(503, "DASHBOARD_DATA_UNAVAILABLE", a).artifact \in Known
          BY AnswersName DEF Known, Succeeded, Refused
        <4>3. CASE LoadArtifact(c)
          BY <2>3, <4>1, <4>2, <4>3 DEF LoadArtifact
        <4>4. CASE LoadDashboard(c)
          BY <4>2, <4>4 DEF LoadDashboard
        <4> QED
          BY <1>4, <4>3, <4>4
      <3> QED
        BY <1>3, <2>1, <3>1
    <2> QED
      BY <2>2, <2>3
  <1>5. CASE WriteAudit(c)
    <2>1. handling[c].step = "audit" /\ Handle(c, Waiting)
          /\ UNCHANGED <<artifacts, packaged>>
      BY <1>5 DEF WriteAudit, packagingVars
    <2>2. \A d \in audits' \cup delivered' :
            d \in audits \cup delivered \/ d.answer.artifact = handling[c].answer.artifact
      BY <1>5, AnswersName DEF WriteAudit
    <2>3. /\ handling' = [e \in Clients |-> handling'[e]]
          /\ handling'[c] = Waiting
          /\ \A e \in Clients \ {c} : handling'[e] = handling[e]
      BY <2>1, HandleStep DEF NamesTheArtifact
    <2> QED
      BY <2>1, <2>2, <2>3 DEF NamesTheArtifact, Known, Waiting
  <1> QED
    BY <1>1, <1>2, <1>4, <1>5

LEMMA NamesNext == NamesTheArtifact /\ [PredictionNext]_predictionVars => NamesTheArtifact'
  <1> SUFFICES ASSUME NamesTheArtifact, [PredictionNext]_predictionVars
               PROVE  NamesTheArtifact'
    OBVIOUS
  <1>1. CASE UNCHANGED predictionVars
    BY <1>1 DEF predictionVars, NamesTheArtifact, Known
  <1>2. CASE ReportHoldout
    BY <1>2 DEF ReportHoldout, servingVars, NamesTheArtifact, Known
  <1>3. CASE RestartAPI
    BY <1>3 DEF RestartAPI, packagingVars, Waiting, NamesTheArtifact, Known
  <1> QED
    BY <1>1, <1>2, <1>3, PackagingNames, ServingNames DEF PredictionNext

\* However often and by however many sessions the model is packaged, whatever
\* commit is lost or retried, one artifact serves: every packaging, response and
\* audit row that names an artifact names it (uq_model_inference_artifacts_experiment).
THEOREM OneArtifactAlwaysServes == PredictionSpec => []OneArtifactServes
  <1>1. PredictionInit => NamesTheArtifact
    BY DEF PredictionInit, NamesTheArtifact, Waiting
  <1>2. NamesTheArtifact => OneArtifactServes
    BY DEF NamesTheArtifact, Known, OneArtifactServes
  <1> QED
    BY <1>1, <1>2, NamesNext, PTL DEF PredictionSpec

-----------------------------------------------------------------------------
(* Audit rows.                                                                *)

\* Requests are numbered: two that are handled differ, and none that is
\* handled has an audit row.
Numbered ==
    /\ handling = [c \in Clients |-> handling[c]]
    /\ received \in Nat
    /\ \A a \in audits : a.id \in 1 .. received
    /\ \A c \in Clients : handling[c].step # "idle" =>
         /\ handling[c].id \in 1 .. received
         /\ \A a \in audits : a.id # handling[c].id
         /\ \A e \in Clients \ {c} :
              handling[e].step # "idle" => handling[e].id # handling[c].id

Confirmed == {d \in audits : d.answer.status < 400}

\* The successes counted are confirmed by as many rows, and what was sent as
\* made is on record.
Audited ==
    /\ IsFiniteSet(audits)
    /\ counters.successes \in Nat
    /\ counters.successes <= Cardinality(Confirmed)
    /\ \A d \in delivered :
         d.answer.code # "AUDIT_PERSISTENCE_UNAVAILABLE" => d \in audits

\* The handlers keep the number of their request.
LEMMA HandlingKeepsNumbers ==
    ASSUME Numbered, NEW c \in Clients, NEW h, Handle(c, h), UNCHANGED audits,
           \/ /\ received' = received + 1
              /\ h.id = received'
           \/ /\ received' = received
              /\ handling[c].step # "idle"
              /\ h.id = handling[c].id
    PROVE  Numbered'
  <1>1. /\ handling' = [e \in Clients |-> handling'[e]]
        /\ handling'[c] = h
        /\ \A e \in Clients \ {c} : handling'[e] = handling[e]
    BY HandleStep DEF Numbered
  <1>2. received \in Nat /\ received' \in Nat /\ received <= received'
    BY DEF Numbered
  <1>3. h.id \in 1 .. received' /\ \A a \in audits : a.id # h.id
    BY <1>2 DEF Numbered
  <1>4. \A e \in Clients \ {c} : handling[e].step # "idle" =>
          /\ handling[e].id \in 1 .. received'
          /\ handling[e].id # h.id
    BY <1>2 DEF Numbered
  <1>5. \A a \in audits : a.id \in 1 .. received'
    BY <1>2 DEF Numbered
  <1> QED
    BY <1>1, <1>2, <1>3, <1>4, <1>5 DEF Numbered

LEMMA HandlersKeepNumbers ==
    ASSUME Numbered, NEW c \in Clients,
           (\E r \in Requests : Receive(c, r)) \/ LoadArtifact(c) \/ LoadDashboard(c)
    PROVE  Numbered'
  <1>1. ASSUME NEW r \in Requests, Receive(c, r) PROVE Numbered'
    <2>1. PICK h : Handle(c, h) /\ h.id = received'
      <3>1. \/ Handle(c, [step |-> "load", id |-> received', request |-> r])
            \/ \E answer \in CallNext(r, AnswerAtOnce(r)) : Handle(c, Answered(received', r, answer))
        BY <1>1 DEF Receive
      <3>2. /\ [step |-> "load", id |-> received', request |-> r].id = received'
            /\ \A answer : Answered(received', r, answer).id = received'
        BY DEF Answered
      <3> QED
        BY <3>1, <3>2, Zenon
    <2> QED
      BY <1>1, <2>1, HandlingKeepsNumbers DEF Receive
  <1>2. CASE LoadArtifact(c) \/ LoadDashboard(c)
    <2> DEFINE g == handling[c]
    <2>1. \/ Handle(c, [step |-> "dashboard", id |-> g.id, request |-> g.request])
          \/ \E made : \E sent \in CallNext(g.request, made) : Handle(c, Answered(g.id, g.request, sent))
      <3>1. CASE LoadArtifact(c)
        BY <3>1 DEF LoadArtifact
      <3>2. CASE LoadDashboard(c)
        BY <3>2 DEF LoadDashboard
      <3> QED
        BY <1>2, <3>1, <3>2
    <2>2. PICK h : Handle(c, h) /\ h.id = g.id
      <3>1. /\ [step |-> "dashboard", id |-> g.id, request |-> g.request].id = g.id
            /\ \A sent : Answered(g.id, g.request, sent).id = g.id
        BY DEF Answered
      <3> QED
        BY <2>1, <3>1, Zenon
    <2>3. /\ received' = received /\ g.step # "idle"
          /\ UNCHANGED audits
      BY <1>2 DEF LoadArtifact, LoadDashboard
    <2> QED
      BY <2>2, <2>3, HandlingKeepsNumbers
  <1> QED
    BY <1>1, <1>2

LEMMA WriteAuditKeeps ==
    ASSUME Numbered, Audited, NEW c \in Clients, WriteAudit(c)
    PROVE  Numbered' /\ Audited'
  <1> DEFINE h == handling[c]
             row == [id |-> h.id, request |-> h.request, answer |-> h.answer]
  <1>1. PICK committed \in BOOLEAN, acknowledged \in BOOLEAN :
          /\ acknowledged => committed
          /\ audits' = IF committed THEN audits \cup {row} ELSE audits
          /\ delivered' = delivered \cup
               {[id |-> h.id, request |-> h.request,
                 answer |-> IF acknowledged THEN h.answer ELSE Unaudited(h.answer)]}
          /\ counters'.successes = counters.successes +
               (IF (IF acknowledged THEN h.answer ELSE Unaudited(h.answer)).status < 400
                THEN 1 ELSE 0)
    BY DEF WriteAudit
  <1>2. /\ h.step = "audit" /\ Handle(c, Waiting) /\ received' = received
    BY DEF WriteAudit
  <1>3. /\ handling' = [e \in Clients |-> handling'[e]]
        /\ handling'[c] = Waiting
        /\ \A e \in Clients \ {c} : handling'[e] = handling[e]
    BY <1>2, HandleStep DEF Numbered
  <1>4. row \notin audits /\ row.id \in 1 .. received /\ row.id = h.id
    BY <1>2 DEF Numbered
  <1>5. Numbered'
    <2>1. \A a \in audits' : a \in audits \/ a = row
      BY <1>1
    <2>2. \A e \in Clients : handling'[e].step # "idle" =>
            e # c /\ handling'[e] = handling[e] /\ handling[e].id # h.id
      BY <1>2, <1>3 DEF Numbered, Waiting
    <2> QED
      BY <1>2, <1>3, <1>4, <2>1, <2>2 DEF Numbered
  <1>6. IsFiniteSet(audits') /\ IsFiniteSet(Confirmed) /\ Confirmed \subseteq audits
    BY <1>1, FS_AddElement, FS_Subset DEF Audited, Confirmed
  <1>7. Cardinality(Confirmed) \in Nat
    BY <1>6, FS_CardinalityType
  <1>8. \A d \in delivered' :
          d.answer.code # "AUDIT_PERSISTENCE_UNAVAILABLE" => d \in audits'
    BY <1>1, AnswersName DEF Audited
  <1>9. counters'.successes \in Nat /\ counters'.successes <= Cardinality(Confirmed')
    <2>1. CASE committed /\ h.answer.status < 400
      <3>1. Confirmed' = Confirmed \cup {row} /\ row \notin Confirmed
        BY <1>1, <1>4, <2>1 DEF Confirmed
      <3>2. Cardinality(Confirmed') = Cardinality(Confirmed) + 1
        BY <1>6, <3>1, FS_AddElement
      <3>3. counters'.successes \in Nat /\ counters'.successes <= counters.successes + 1
        BY <1>1 DEF Audited
      <3> QED
        BY <1>7, <3>2, <3>3 DEF Audited
    <2>2. CASE ~ (committed /\ h.answer.status < 400)
      <3>1. Confirmed' = Confirmed
        BY <1>1, <2>2 DEF Confirmed
      <3>2. counters'.successes = counters.successes
        <4>1. CASE acknowledged
          BY <1>1, <2>2, <4>1 DEF Audited
        <4>2. CASE ~ acknowledged
          BY <1>1, <4>2, AnswersName DEF Audited
        <4> QED
          BY <4>1, <4>2
      <3> QED
        BY <3>1, <3>2 DEF Audited
    <2> QED
      BY <2>1, <2>2
  <1> QED
    BY <1>5, <1>6, <1>8, <1>9 DEF Audited

LEMMA AuditNext ==
    Numbered /\ Audited /\ [PredictionNext]_predictionVars => Numbered' /\ Audited'
  <1> SUFFICES ASSUME Numbered, Audited, [PredictionNext]_predictionVars
               PROVE  Numbered' /\ Audited'
    OBVIOUS
  <1>1. ASSUME UNCHANGED servingVars PROVE Numbered' /\ Audited'
    BY <1>1 DEF servingVars, Numbered, Audited, Confirmed
  <1>2. CASE UNCHANGED predictionVars
    BY <1>1, <1>2 DEF predictionVars, servingVars
  <1>3. ASSUME NEW p \in Packagers,
               ReportHoldout \/ StartPackaging(p) \/ CommitArtifact(p) \/ AbandonPackaging(p)
        PROVE  UNCHANGED servingVars
    BY <1>3 DEF ReportHoldout, StartPackaging, CommitArtifact, AbandonPackaging
  <1>4. CASE ReportHoldout
    BY <1>1, <1>4 DEF ReportHoldout
  <1>5. CASE RestartAPI
    <2>1. UNCHANGED <<received, audits, delivered>> /\ counters' = Zero
          /\ handling' = [c \in Clients |-> Waiting]
      BY <1>5 DEF RestartAPI
    <2>2. IsFiniteSet(Confirmed) /\ Confirmed' = Confirmed
      BY <2>1, FS_Subset DEF Audited, Confirmed
    <2>3. Cardinality(Confirmed) \in Nat /\ Zero.successes = 0
      BY <2>2, FS_CardinalityType DEF Zero
    <2>4. Numbered'
      BY <2>1 DEF Numbered, Waiting
    <2> QED
      BY <2>1, <2>2, <2>3, <2>4 DEF Audited
  <1>6. ASSUME NEW c \in Clients,
               (\E r \in Requests : Receive(c, r)) \/ LoadArtifact(c) \/ LoadDashboard(c)
        PROVE  Numbered' /\ Audited'
    <2>1. UNCHANGED <<audits, delivered, counters>>
      BY <1>6 DEF Receive, LoadArtifact, LoadDashboard
    <2> QED
      BY <1>6, <2>1, HandlersKeepNumbers DEF Audited, Confirmed
  <1> QED
    BY <1>1, <1>2, <1>3, <1>4, <1>5, <1>6, WriteAuditKeeps DEF PredictionNext

\* For any clients and requests, whatever audits fail or lose their
\* acknowledgement and whenever the process restarts: what is sent as made is on
\* record, and no success is counted without a row (observe_and_limit).
THEOREM AnswersAreAlwaysAudited == PredictionSpec => []AnswersAreAudited
  <1>1. PredictionInit => Numbered /\ Audited
    <2> SUFFICES ASSUME PredictionInit PROVE Numbered /\ Audited
      OBVIOUS
    <2>1. Numbered
      BY DEF PredictionInit, Numbered, Waiting
    <2>2. Confirmed = {} /\ Cardinality({}) = 0 /\ IsFiniteSet({})
      BY FS_EmptySet DEF PredictionInit, Confirmed
    <2> QED
      BY <2>1, <2>2 DEF PredictionInit, Audited, Zero
  <1>2. Audited => AnswersAreAudited
    BY DEF Audited, Confirmed, AnswersAreAudited
  <1> QED
    BY <1>1, <1>2, AuditNext, PTL DEF PredictionSpec

-----------------------------------------------------------------------------
(* What a cutoff sees.                                                        *)

\* A commit after the cutoff settled belongs to a transaction that began after it.
LEMMA StampsAreLater ==
    ASSUME now \in Nat, NEW cutoff \in Nat, Settled(cutoff), NEW s \in Stamps
    PROVE  s > cutoff
  BY ReadinessAssumption DEF Settled, Stamps

Dated(s) ==
    /\ Len(s) \in Nat /\ DOMAIN s = 1 .. Len(s)
    /\ \A i \in DOMAIN s : s[i].as_of \in Nat /\ s[i].stamp \in Nat

SeenIn(s, cutoff) == {i \in DOMAIN s : s[i].as_of <= cutoff /\ Stored(s[i], cutoff)}

\* Of the rows a cutoff sees, one is the latest.
LEMMA LatestExists ==
    ASSUME NEW s, Dated(s), NEW cutoff \in Nat, SeenIn(s, cutoff) # {}
    PROVE  \E j \in SeenIn(s, cutoff) : \A i \in SeenIn(s, cutoff) : Precedes(s, i, j)
  <1> DEFINE Seen == SeenIn(s, cutoff)
             A == {s[i].as_of : i \in Seen}
  <1>1. \A i \in Seen : /\ i \in 1 .. Len(s) /\ s[i].as_of \in 0 .. cutoff
                        /\ s[i].stamp \in 0 .. cutoff
    BY DEF SeenIn, Dated, Stored
  <1>2. Len(s) \in Nat /\ Seen # {}
    BY DEF Dated
  <1> HIDE DEF Seen
  <1>3. PICK a \in A : \A x \in A : a >= x
    <2>1. A \in SUBSET (0 .. cutoff) /\ A # {}
      BY <1>1, <1>2
    <2> HIDE DEF A
    <2> QED
      BY <2>1, GreatestExists
  <1> DEFINE B == {s[i].stamp : i \in {k \in Seen : s[k].as_of = a}}
  <1>4. PICK b \in B : \A x \in B : b >= x
    <2>1. B \in SUBSET (0 .. cutoff) /\ B # {}
      BY <1>1, <1>3
    <2> HIDE DEF B
    <2> QED
      BY <2>1, GreatestExists
  <1> DEFINE C == {i \in Seen : s[i].as_of = a /\ s[i].stamp = b}
  <1>5. PICK c \in C : \A i \in C : c >= i
    <2>1. C \in SUBSET (0 .. Len(s)) /\ C # {}
      BY <1>1, <1>2, <1>4
    <2> HIDE DEF C
    <2> QED
      BY <1>2, <2>1, GreatestExists
  <1>6. \A i \in Seen : Precedes(s, i, c)
    <2> TAKE i \in Seen
    <2>1. a \in Nat /\ b \in Nat /\ c \in Nat /\ i \in Nat
          /\ s[i].as_of \in Nat /\ s[i].stamp \in Nat
          /\ s[c].as_of = a /\ s[c].stamp = b
      BY <1>1, <1>3, <1>4, <1>5
    <2>2. CASE s[i].as_of # a
      BY <1>3, <2>1, <2>2 DEF Precedes
    <2>3. CASE s[i].as_of = a /\ s[i].stamp # b
      BY <1>4, <2>1, <2>3 DEF Precedes
    <2>4. CASE s[i].as_of = a /\ s[i].stamp = b
      BY <1>5, <2>1, <2>4 DEF Precedes
    <2> QED
      BY <2>2, <2>3, <2>4
  <1> QED
    BY <1>5, <1>6 DEF Seen

\* Rows appended with a later stamp are not seen.
LEMMA LatestStands ==
    ASSUME NEW s, Dated(s), NEW row, NEW cutoff \in Nat, ~ Stored(row, cutoff)
    PROVE  LatestAt(Append(s, row), cutoff) = LatestAt(s, cutoff)
  <1> DEFINE t == Append(s, row)
             LastOf(q) == CHOOSE j \in SeenIn(q, cutoff) :
                            \A i \in SeenIn(q, cutoff) : Precedes(q, i, j)
  <1>1. /\ DOMAIN t = 1 .. Len(s) + 1 /\ t[Len(s) + 1] = row
        /\ \A i \in DOMAIN s : t[i] = s[i]
        /\ DOMAIN s = 1 .. Len(s) /\ Len(s) \in Nat
    BY DEF Dated
  <1> HIDE DEF t
  <1>2. SeenIn(t, cutoff) = SeenIn(s, cutoff) /\ SeenIn(s, cutoff) \subseteq DOMAIN s
    BY <1>1 DEF SeenIn
  <1>3. \A i, j \in SeenIn(s, cutoff) : Precedes(t, i, j) <=> Precedes(s, i, j)
    BY <1>1, <1>2 DEF Precedes
  <1>4. LastOf(t) = LastOf(s)
    BY <1>2, <1>3
  <1>5. SeenIn(s, cutoff) # {} => t[LastOf(s)] = s[LastOf(s)]
    <2>1. SeenIn(s, cutoff) # {} => LastOf(s) \in SeenIn(s, cutoff)
      BY LatestExists
    <2> HIDE DEF LastOf
    <2> QED
      BY <1>1, <1>2, <2>1
  <1>6. \A q : LatestAt(q, cutoff) = IF SeenIn(q, cutoff) = {} THEN None
                                    ELSE <<[q[LastOf(q)] EXCEPT !.stamp = 0]>>
    BY DEF LatestAt, SeenIn
  <1> HIDE DEF LastOf
  <1>7. LatestAt(t, cutoff) = LatestAt(s, cutoff)
    BY <1>2, <1>4, <1>5, <1>6
  <1> QED
    BY <1>7 DEF t

-----------------------------------------------------------------------------
(* The invariant.                                                             *)

ReaderFields == {"step", "as_of", "conflicts", "coverage"}
InspectorFields == {"step", "as_of", "settled", "attempts", "left", "turn", "outcomes",
                    "checkpoints", "conflicts", "sync"}

SeenAttempts(cutoff) == {a \in attempts : a.started <= cutoff /\ Stored(a, cutoff)}
SeenCheckpoints(cutoff) == {c \in checkpoints : Stored(c, cutoff)}
HasSucceeded(a, os) == \E o \in os : o.attempt = a.id /\ o.reason = "succeeded"

Dates ==
    /\ now \in Nat /\ Dated(synced) /\ Dated(quality)
    /\ reader # Off => ReaderFields \subseteq DOMAIN reader /\ reader.as_of \in Nat

\* A checkpoint and the outcome of its attempt are one transaction, and the
\* outcome is dated before it.
CheckpointsConclude ==
    /\ attempts \subseteq Acquisitions
    /\ \A c \in checkpoints :
         /\ c.stamp \in Nat
         /\ \E o \in outcomes : /\ o.attempt = c.attempt /\ o.reason = "succeeded"
                                /\ o.completed \in Nat /\ o.completed <= c.stamp

\* The attempts whose outcome was read, and of them those whose checkpoint was.
Taken == inspector.attempts \ inspector.left
Checked == {a \in Taken : inspector.step = "checkpoint" => inspector.turn # <<a>>}

\* What an inspection has read of a settled cutoff is all there will be to read,
\* but for outcomes of attempts that have no checkpoint.
ReadStands ==
    /\ Settled(inspector.as_of)
    /\ inspector.attempts = AttemptEvidence(inspector.as_of)
    /\ inspector.outcomes \subseteq
         UNION {OutcomeEvidence(a, inspector.as_of) : a \in inspector.attempts}
    /\ \A a \in Taken, c \in SeenCheckpoints(inspector.as_of) :
         c.attempt = a.id => HasSucceeded(a, inspector.outcomes)
    /\ inspector.checkpoints = UNION {CheckpointEvidence(a.tf, inspector.as_of) : a \in Checked}
    /\ inspector.step \in {"synced", "quality"} =>
         inspector.conflicts = ConflictEvidence(inspector.as_of)
    /\ inspector.step = "quality" => inspector.sync = LatestAt(synced, inspector.as_of)

InspectorStands ==
    inspector # Off =>
        /\ InspectorFields \subseteq DOMAIN inspector
        /\ inspector.as_of \in Nat
        /\ inspector.step \in {"outcome", "checkpoint", "synced", "quality"}
        /\ inspector.left \subseteq inspector.attempts
        /\ inspector.step = "checkpoint" => \E a \in Taken : inspector.turn = <<a>>
        /\ inspector.step \in {"synced", "quality"} => inspector.left = {}
        /\ inspector.settled => ReadStands

\* The report of a settled cutoff agrees with what is found of it.
Stands(r, found) ==
    /\ r.evidence = [found EXCEPT !.outcomes = r.evidence.outcomes]
    /\ r.evidence.outcomes \subseteq found.outcomes

ReportsStand ==
    \A r \in reports : r.settled =>
        /\ r.as_of \in Nat /\ Settled(r.as_of)
        /\ Stands(r, Found(r.as_of))
        /\ \A a \in r.evidence.attempts, c \in r.evidence.checkpoints :
             c.attempt = a.id => HasSucceeded(a, r.evidence.outcomes)
        /\ r.blockers = Blockers(r.evidence)

ReadinessInv == Dates /\ CheckpointsConclude /\ InspectorStands /\ ReportsStand

\* Evidence field by field.
CheckpointsOf(as, cutoff) == UNION {CheckpointEvidence(a.tf, cutoff) : a \in as}
OutcomesOf(as, cutoff) == UNION {OutcomeEvidence(a, cutoff) : a \in as}

EvidenceOf(cutoff, named) ==
    [attempts |-> AttemptEvidence(cutoff), outcomes |-> named,
     checkpoints |-> CheckpointsOf(AttemptEvidence(cutoff), cutoff),
     conflicts |-> ConflictEvidence(cutoff),
     sync |-> LatestAt(synced, cutoff), quality |-> LatestAt(quality, cutoff)]

LEMMA FoundIs ==
    ASSUME NEW cutoff
    PROVE  /\ Found(cutoff) = EvidenceOf(cutoff, OutcomesOf(AttemptEvidence(cutoff), cutoff))
           /\ Found(cutoff)' = EvidenceOf(cutoff, OutcomesOf(AttemptEvidence(cutoff), cutoff))'
  BY DEF Found, CheckpointsOf, OutcomesOf, EvidenceOf

LEMMA EvidenceExcept ==
    ASSUME NEW cutoff, NEW named, NEW os
    PROVE  /\ [EvidenceOf(cutoff, os) EXCEPT !.outcomes = named] = EvidenceOf(cutoff, named)
           /\ EvidenceOf(cutoff, os).outcomes = os
  BY DEF EvidenceOf

LEMMA StandsWhenFieldsDo ==
    ASSUME NEW r, NEW cutoff
    PROVE  /\ Stands(r, Found(cutoff)) <=>
               /\ r.evidence = EvidenceOf(cutoff, r.evidence.outcomes)
               /\ r.evidence.outcomes \subseteq OutcomesOf(AttemptEvidence(cutoff), cutoff)
           /\ Stands(r, Found(cutoff)') <=>
               /\ r.evidence = EvidenceOf(cutoff, r.evidence.outcomes)'
               /\ r.evidence.outcomes \subseteq OutcomesOf(AttemptEvidence(cutoff), cutoff)'
  <1>1. Stands(r, Found(cutoff)) <=>
               /\ r.evidence = EvidenceOf(cutoff, r.evidence.outcomes)
               /\ r.evidence.outcomes \subseteq OutcomesOf(AttemptEvidence(cutoff), cutoff)
    BY FoundIs, EvidenceExcept DEF Stands
  <1>2. Stands(r, Found(cutoff)') <=>
               /\ r.evidence = EvidenceOf(cutoff, r.evidence.outcomes)'
               /\ r.evidence.outcomes \subseteq OutcomesOf(AttemptEvidence(cutoff), cutoff)'
    BY FoundIs DEF Stands, EvidenceOf
  <1> QED
    BY <1>1, <1>2

\* Nothing more of a settled cutoff is ever seen, except outcomes.
NothingSeen ==
    /\ outcomes \subseteq outcomes'
    /\ \A cutoff \in Nat : Settled(cutoff) =>
        /\ Settled(cutoff)'
        /\ SeenAttempts(cutoff)' = SeenAttempts(cutoff)
        /\ SeenCheckpoints(cutoff)' = SeenCheckpoints(cutoff)
        /\ ConflictEvidence(cutoff)' = ConflictEvidence(cutoff)
        /\ LatestAt(synced, cutoff)' = LatestAt(synced, cutoff)
        /\ LatestAt(quality, cutoff)' = LatestAt(quality, cutoff)

\* The evidence of a cutoff is a matter of what the cutoff sees.
LEMMA EvidenceStands ==
    ASSUME NothingSeen, NEW cutoff \in Nat, Settled(cutoff)
    PROVE  /\ Settled(cutoff)'
           /\ AttemptEvidence(cutoff)' = AttemptEvidence(cutoff)
           /\ \A tf : CheckpointEvidence(tf, cutoff)' = CheckpointEvidence(tf, cutoff)
           /\ \A a : OutcomeEvidence(a, cutoff) \subseteq OutcomeEvidence(a, cutoff)'
           /\ SeenCheckpoints(cutoff)' = SeenCheckpoints(cutoff)
           /\ ConflictEvidence(cutoff)' = ConflictEvidence(cutoff)
           /\ LatestAt(synced, cutoff)' = LatestAt(synced, cutoff)
           /\ LatestAt(quality, cutoff)' = LatestAt(quality, cutoff)
  <1>1. AttemptEvidence(cutoff) =
          {a \in SeenAttempts(cutoff) :
             \A b \in SeenAttempts(cutoff) : b.tf = a.tf => ~ AttemptFollows(b, a)}
    BY DEF AttemptEvidence, SeenAttempts
  <1>2. AttemptEvidence(cutoff)' =
          {a \in SeenAttempts(cutoff)' :
             \A b \in SeenAttempts(cutoff)' : b.tf = a.tf => ~ AttemptFollows(b, a)}
    BY DEF AttemptEvidence, SeenAttempts, AttemptFollows, Stored
  <1>3. ASSUME NEW tf
        PROVE  CheckpointEvidence(tf, cutoff)' = CheckpointEvidence(tf, cutoff)
    <2> DEFINE Of(seen) == {c \in seen : c.tf = tf}
               LastOf(seen) == {c \in Of(seen) : \A d \in Of(seen) : ~ CheckpointFollows(d, c)}
    <2>1. CheckpointEvidence(tf, cutoff) = LastOf(SeenCheckpoints(cutoff))
      <3>1. {c \in checkpoints : c.tf = tf /\ Stored(c, cutoff)} = Of(SeenCheckpoints(cutoff))
        BY DEF SeenCheckpoints
      <3> QED
        BY <3>1 DEF CheckpointEvidence
    <2>2. CheckpointEvidence(tf, cutoff)' = LastOf(SeenCheckpoints(cutoff)')
      <3>1. {c \in checkpoints' : c.tf = tf /\ Stored(c, cutoff)} = Of(SeenCheckpoints(cutoff)')
        BY DEF SeenCheckpoints, Stored
      <3> QED
        BY <3>1 DEF CheckpointEvidence, Stored, CheckpointFollows
    <2>3. SeenCheckpoints(cutoff)' = SeenCheckpoints(cutoff)
      BY DEF NothingSeen
    <2> HIDE DEF LastOf
    <2> QED
      BY <2>1, <2>2, <2>3
  <1>4. \A a : OutcomeEvidence(a, cutoff) \subseteq OutcomeEvidence(a, cutoff)'
    BY DEF NothingSeen, OutcomeEvidence
  <1> QED
    BY <1>1, <1>2, <1>3, <1>4 DEF NothingSeen

LEMMA AppendDated ==
    ASSUME NEW s, Dated(s), NEW row, row.as_of \in Nat, row.stamp \in Nat
    PROVE  Dated(Append(s, row))
  <1>1. /\ Len(Append(s, row)) = Len(s) + 1
        /\ DOMAIN Append(s, row) = 1 .. Len(s) + 1
        /\ Append(s, row)[Len(s) + 1] = row
        /\ \A i \in DOMAIN s : Append(s, row)[i] = s[i]
    BY DEF Dated
  <1> QED
    BY <1>1 DEF Dated

\* The tables a step leaves alone.
SameRows == UNCHANGED <<disputes, attempts, outcomes, checkpoints, synced, quality>>

\* Whatever no commit has changed is found again.
LEMMA SameRowsSeen ==
    ASSUME SameRows, UNCHANGED now
    PROVE  /\ NothingSeen
           /\ \A cutoff : /\ Settled(cutoff)' = Settled(cutoff)
                          /\ AttemptEvidence(cutoff)' = AttemptEvidence(cutoff)
                          /\ SeenCheckpoints(cutoff)' = SeenCheckpoints(cutoff)
                          /\ ConflictEvidence(cutoff)' = ConflictEvidence(cutoff)
                          /\ LatestAt(synced, cutoff)' = LatestAt(synced, cutoff)
           /\ \A tf, cutoff : CheckpointEvidence(tf, cutoff)' = CheckpointEvidence(tf, cutoff)
           /\ \A a, cutoff : OutcomeEvidence(a, cutoff)' = OutcomeEvidence(a, cutoff)
  <1>1. \A cutoff : /\ Settled(cutoff)' = Settled(cutoff)
                    /\ AttemptEvidence(cutoff)' = AttemptEvidence(cutoff)
                    /\ SeenAttempts(cutoff)' = SeenAttempts(cutoff)
                    /\ SeenCheckpoints(cutoff)' = SeenCheckpoints(cutoff)
                    /\ ConflictEvidence(cutoff)' = ConflictEvidence(cutoff)
    BY DEF SameRows, Settled, AttemptEvidence, SeenAttempts, SeenCheckpoints, ConflictEvidence,
           Stored, AttemptFollows
  <1>2. \A cutoff : /\ LatestAt(synced, cutoff)' = LatestAt(synced, cutoff)
                    /\ LatestAt(quality, cutoff)' = LatestAt(quality, cutoff)
    BY DEF SameRows, LatestAt, Stored, Precedes
  <1>3. \A tf, cutoff : CheckpointEvidence(tf, cutoff)' = CheckpointEvidence(tf, cutoff)
    BY DEF SameRows, CheckpointEvidence, Stored, CheckpointFollows
  <1>4. \A a, cutoff : OutcomeEvidence(a, cutoff)' = OutcomeEvidence(a, cutoff)
    BY DEF SameRows, OutcomeEvidence
  <1> QED
    BY <1>1, <1>2, <1>3, <1>4 DEF NothingSeen, SameRows

\* The acquisition's commits: a row of a settled cutoff is never added.
LEMMA AcquisitionUnseen ==
    ASSUME Dates, CheckpointsConclude,
           RecordAttempt \/ RecordFailure \/ CloseInterrupted \/ RecordCheckpoint
    PROVE  /\ NothingSeen /\ CheckpointsConclude'
           /\ UNCHANGED <<now, synced, quality, reader, inspector, reports>>
  <1>1. UNCHANGED <<now, disputes, synced, quality, reader, inspector, reports>>
    BY DEF RecordAttempt, RecordFailure, CloseInterrupted, RecordCheckpoint
  <1>2. outcomes \subseteq outcomes'
    BY DEF RecordAttempt, RecordFailure, CloseInterrupted, RecordCheckpoint, Conclude
  <1>3. \A cutoff : /\ Settled(cutoff)' = Settled(cutoff)
                    /\ ConflictEvidence(cutoff)' = ConflictEvidence(cutoff)
                    /\ LatestAt(synced, cutoff)' = LatestAt(synced, cutoff)
                    /\ LatestAt(quality, cutoff)' = LatestAt(quality, cutoff)
    BY <1>1 DEF Settled, ConflictEvidence, LatestAt, Stored, Precedes
  <1>4. ASSUME NEW cutoff \in Nat, Settled(cutoff)
        PROVE  SeenAttempts(cutoff)' = SeenAttempts(cutoff)
    <2>1. CASE RecordAttempt
      <3>1. PICK a \in Acquisitions : a.stamp \in Stamps /\ attempts' = attempts \cup {a}
        BY <2>1 DEF RecordAttempt
      <3>2. a.stamp \in Nat /\ a.stamp > cutoff
        BY <1>4, <3>1, StampsAreLater DEF Dates, Stamps
      <3> QED
        BY <3>1, <3>2 DEF SeenAttempts, Stored
    <2>2. CASE attempts' = attempts
      BY <2>2 DEF SeenAttempts, Stored
    <2> QED
      BY <2>1, <2>2 DEF RecordFailure, CloseInterrupted, RecordCheckpoint
  <1>5. ASSUME NEW cutoff \in Nat, Settled(cutoff)
        PROVE  SeenCheckpoints(cutoff)' = SeenCheckpoints(cutoff)
    <2>1. CASE RecordCheckpoint
      <3>1. PICK c : c.stamp \in Stamps /\ checkpoints' = checkpoints \cup {c}
        BY <2>1 DEF RecordCheckpoint
      <3>2. c.stamp \in Nat /\ c.stamp > cutoff
        BY <1>5, <3>1, StampsAreLater DEF Dates, Stamps
      <3> QED
        BY <3>1, <3>2 DEF SeenCheckpoints, Stored
    <2>2. CASE checkpoints' = checkpoints
      BY <2>2 DEF SeenCheckpoints, Stored
    <2> QED
      BY <2>1, <2>2 DEF RecordAttempt, RecordFailure, CloseInterrupted
  <1>6. attempts' \subseteq Acquisitions
    BY DEF RecordAttempt, RecordFailure, CloseInterrupted, RecordCheckpoint, CheckpointsConclude
  <1>7. ASSUME NEW c \in checkpoints'
        PROVE  /\ c.stamp \in Nat
               /\ \E o \in outcomes' : /\ o.attempt = c.attempt /\ o.reason = "succeeded"
                                       /\ o.completed \in Nat /\ o.completed <= c.stamp
    <2>1. CASE c \in checkpoints
      BY <1>2, <2>1 DEF CheckpointsConclude
    <2>2. CASE c \notin checkpoints
      <3>1. RecordCheckpoint
        BY <1>7, <2>2 DEF RecordAttempt, RecordFailure, CloseInterrupted
      <3>2. PICK a \in attempts, t \in Stamps :
              /\ a.stamp <= t
              /\ Conclude(a, a.started, "succeeded")
              /\ checkpoints' = checkpoints \cup {[attempt |-> a.id, tf |-> a.tf, stamp |-> t]}
        BY <3>1 DEF RecordCheckpoint
      <3>3. c = [attempt |-> a.id, tf |-> a.tf, stamp |-> t]
        BY <1>7, <2>2, <3>2
      <3>4. [attempt |-> a.id, completed |-> a.started, reason |-> "succeeded"] \in outcomes'
        BY <3>2 DEF Conclude
      <3>5. t \in Nat /\ a.started \in Nat /\ a.stamp \in Nat /\ a.started <= a.stamp
        BY ReadinessBounds DEF CheckpointsConclude, Stamps
      <3>6. a.started <= t
        BY <3>2, <3>5
      <3> QED
        BY <3>3, <3>4, <3>5, <3>6
    <2> QED
      BY <2>1, <2>2
  <1> QED
    BY <1>1, <1>2, <1>3, <1>4, <1>5, <1>6, <1>7 DEF NothingSeen, CheckpointsConclude

LEMMA CommitsUnseen ==
    ASSUME Dates, CheckpointsConclude,
           \/ PassTime \/ IngestPage \/ DisputeCandle
           \/ RecordAttempt \/ RecordFailure \/ CloseInterrupted \/ RecordCheckpoint
           \/ \E cutoff \in Cutoffs : Synchronize(cutoff)
           \/ PersistQuality
    PROVE  NothingSeen /\ Dates' /\ CheckpointsConclude' /\ UNCHANGED <<inspector, reports>>
  <1> DEFINE SameAcquisitions == UNCHANGED <<attempts, outcomes, checkpoints>>
             Goal == NothingSeen /\ Dates' /\ CheckpointsConclude' /\ UNCHANGED <<inspector, reports>>
  <1>0. ASSUME SameAcquisitions
        PROVE  /\ CheckpointsConclude' /\ outcomes \subseteq outcomes'
               /\ \A cutoff : /\ SeenAttempts(cutoff)' = SeenAttempts(cutoff)
                              /\ SeenCheckpoints(cutoff)' = SeenCheckpoints(cutoff)
    BY <1>0 DEF CheckpointsConclude, SeenAttempts, SeenCheckpoints, Stored
  <1>1. CASE PassTime
    <2>1. now' = now + 1 /\ now \in Nat /\ SameRows /\ UNCHANGED <<reader, inspector, reports>>
      BY <1>1 DEF PassTime, Dates, SameRows, acquisitionTables
    <2>2. \A c \in Nat : Settled(c) => Settled(c)'
      BY <2>1, ReadinessAssumption DEF Settled
    <2>3. \A c : /\ ConflictEvidence(c)' = ConflictEvidence(c)
                 /\ LatestAt(synced, c)' = LatestAt(synced, c)
                 /\ LatestAt(quality, c)' = LatestAt(quality, c)
      BY <2>1 DEF SameRows, ConflictEvidence, LatestAt, Stored, Precedes
    <2>4. Dates'
      BY <2>1 DEF SameRows, Dates
    <2> QED
      BY <1>0, <2>1, <2>2, <2>3, <2>4 DEF SameRows, NothingSeen
  <1>2. CASE IngestPage
    <2>1. now \in Nat /\ UNCHANGED now /\ SameRows /\ UNCHANGED <<reader, inspector, reports>>
      BY <1>2 DEF IngestPage, Dates, SameRows, acquisitionTables
    <2> QED
      BY <1>0, <2>1, SameRowsSeen DEF SameRows, Dates
  <1>3. CASE DisputeCandle
    <2>1. PICK s \in Stamps : \A c \in disputes' : c \in disputes \/ c.stamp = s
      BY <1>3 DEF DisputeCandle
    <2>2. disputes \subseteq disputes' /\ SameAcquisitions
          /\ UNCHANGED <<now, synced, quality, reader, inspector, reports>>
      BY <1>3 DEF DisputeCandle, acquisitionTables
    <2>3. ASSUME NEW cutoff \in Nat, Settled(cutoff)
          PROVE  ConflictEvidence(cutoff)' = ConflictEvidence(cutoff)
      <3>1. s > cutoff /\ s \in Nat
        BY <2>3, StampsAreLater DEF Dates, Stamps
      <3> QED
        BY <2>1, <2>2, <3>1 DEF ConflictEvidence, Stored
    <2>4. \A c : /\ Settled(c)' = Settled(c)
                 /\ LatestAt(synced, c)' = LatestAt(synced, c)
                 /\ LatestAt(quality, c)' = LatestAt(quality, c)
      BY <2>2 DEF Settled, LatestAt, Stored, Precedes
    <2> QED
      BY <1>0, <2>2, <2>3, <2>4 DEF NothingSeen, Dates
  <1>4. CASE RecordAttempt \/ RecordFailure \/ CloseInterrupted \/ RecordCheckpoint
    BY <1>4, AcquisitionUnseen DEF Dates
  <1>5. ASSUME NEW c \in Cutoffs, Synchronize(c)
        PROVE  Goal
    <2>1. PICK row : synced' = Append(synced, row) /\ row.as_of = c /\ row.stamp \in Stamps
      BY <1>5 DEF Synchronize
    <2>2. UNCHANGED <<now, disputes, quality, reader, inspector, reports>> /\ SameAcquisitions
      BY <1>5 DEF Synchronize, acquisitionTables
    <2>3. row.stamp \in Nat /\ row.as_of \in Nat
      BY <2>1, ReadinessAssumption DEF Stamps
    <2>4. ASSUME NEW cutoff \in Nat, Settled(cutoff)
          PROVE  LatestAt(synced', cutoff) = LatestAt(synced, cutoff)
      <3>1. ~ Stored(row, cutoff)
        BY <2>1, <2>3, <2>4, StampsAreLater DEF Dates, Stored
      <3> QED
        BY <2>1, <3>1, LatestStands DEF Dates
    <2>5. Dated(synced')
      BY <2>1, <2>3, AppendDated DEF Dates
    <2>6. \A e : /\ Settled(e)' = Settled(e) /\ ConflictEvidence(e)' = ConflictEvidence(e)
                 /\ LatestAt(quality, e)' = LatestAt(quality, e)
      BY <2>2 DEF Settled, ConflictEvidence, LatestAt, Stored, Precedes
    <2>7. \A e \in Nat : Settled(e) => LatestAt(synced, e)' = LatestAt(synced, e)
      BY <2>4 DEF LatestAt, Stored, Precedes
    <2>8. Dates'
      BY <2>2, <2>5 DEF Dates
    <2> QED
      BY <1>0, <2>2, <2>6, <2>7, <2>8 DEF NothingSeen
  <1>6. CASE PersistQuality
    <2>1. UNCHANGED <<now, disputes, synced, inspector, reports>> /\ SameAcquisitions
          /\ reader' = Off
      BY <1>6 DEF PersistQuality, acquisitionTables
    <2>2. CASE quality' = quality
      <3>1. SameRows /\ UNCHANGED <<now, inspector, reports>> /\ Dates'
        BY <2>1, <2>2 DEF SameRows, Dates
      <3> QED
        BY <1>0, <2>1, <3>1, SameRowsSeen
    <2>3. CASE quality' # quality
      <3>1. PICK row : /\ quality' = Append(quality, row)
                       /\ row.as_of = reader.as_of /\ row.stamp \in Stamps
        BY <1>6, <2>3 DEF PersistQuality
      <3>2. row.stamp \in Nat /\ row.as_of \in Nat
        BY <1>6, <3>1 DEF PersistQuality, Off, Dates, Stamps
      <3>3. ASSUME NEW cutoff \in Nat, Settled(cutoff)
            PROVE  LatestAt(quality', cutoff) = LatestAt(quality, cutoff)
        <4>1. ~ Stored(row, cutoff)
          BY <3>1, <3>2, <3>3, StampsAreLater DEF Dates, Stored
        <4> QED
          BY <3>1, <4>1, LatestStands DEF Dates
      <3>4. Dated(quality')
        BY <3>1, <3>2, AppendDated DEF Dates
      <3>5. \A e : /\ Settled(e)' = Settled(e) /\ ConflictEvidence(e)' = ConflictEvidence(e)
                   /\ LatestAt(synced, e)' = LatestAt(synced, e)
        BY <2>1 DEF Settled, ConflictEvidence, LatestAt, Stored, Precedes
      <3>6. \A e \in Nat : Settled(e) => LatestAt(quality, e)' = LatestAt(quality, e)
        BY <3>3 DEF LatestAt, Stored, Precedes
      <3>7. Dates'
        BY <2>1, <3>4 DEF Dates
      <3> QED
        BY <1>0, <2>1, <3>5, <3>6, <3>7 DEF NothingSeen
    <2> QED
      BY <2>2, <2>3
  <1> QED
    BY <1>1, <1>2, <1>3, <1>4, <1>5, <1>6

-----------------------------------------------------------------------------
(* Every step.                                                                *)

\* Inspections and reports outlast what is committed beside them.
LEMMA ReportsOutlast ==
    ASSUME ReportsStand, NothingSeen, UNCHANGED reports
    PROVE  ReportsStand'
  <1>1. ASSUME NEW r \in reports, r.settled
        PROVE  r.as_of \in Nat /\ Settled(r.as_of)' /\ Stands(r, Found(r.as_of)')
    <2>1. r.as_of \in Nat /\ Settled(r.as_of) /\ Stands(r, Found(r.as_of))
      BY <1>1 DEF ReportsStand
    <2> DEFINE t == r.as_of
               named == r.evidence.outcomes
    <2>2. /\ Settled(t)'
          /\ AttemptEvidence(t)' = AttemptEvidence(t)
          /\ \A tf : CheckpointEvidence(tf, t)' = CheckpointEvidence(tf, t)
          /\ \A a : OutcomeEvidence(a, t) \subseteq OutcomeEvidence(a, t)'
          /\ ConflictEvidence(t)' = ConflictEvidence(t)
          /\ LatestAt(synced, t)' = LatestAt(synced, t)
          /\ LatestAt(quality, t)' = LatestAt(quality, t)
      BY <2>1, EvidenceStands
    <2>3. CheckpointsOf(AttemptEvidence(t), t)' = CheckpointsOf(AttemptEvidence(t), t)
      BY <2>2 DEF CheckpointsOf
    <2>4. OutcomesOf(AttemptEvidence(t), t) \subseteq OutcomesOf(AttemptEvidence(t), t)'
      BY <2>2 DEF OutcomesOf
    <2>5. Stands(r, Found(t)')
      <3>1. /\ r.evidence = EvidenceOf(t, named)
            /\ named \subseteq OutcomesOf(AttemptEvidence(t), t)
        BY <2>1, StandsWhenFieldsDo
      <3>2. EvidenceOf(t, named)' = EvidenceOf(t, named)
        BY <2>2, <2>3 DEF EvidenceOf
      <3> QED
        BY <2>4, <3>1, <3>2, StandsWhenFieldsDo
    <2> QED
      BY <2>1, <2>2, <2>5
  <1> QED
    BY <1>1 DEF ReportsStand, Stands

LEMMA StandsBeside ==
    ASSUME InspectorStands, ReportsStand, NothingSeen, UNCHANGED <<inspector, reports>>
    PROVE  InspectorStands' /\ ReportsStand'
  <1>1. ASSUME inspector # Off, inspector.settled PROVE ReadStands'
    <2> DEFINE t == inspector.as_of
    <2>1. t \in Nat /\ ReadStands /\ t' = t /\ Taken' = Taken /\ Checked' = Checked
      BY <1>1 DEF InspectorStands, Taken, Checked
    <2>2. /\ Settled(t)'
          /\ AttemptEvidence(t)' = AttemptEvidence(t)
          /\ \A tf : CheckpointEvidence(tf, t)' = CheckpointEvidence(tf, t)
          /\ \A a : OutcomeEvidence(a, t) \subseteq OutcomeEvidence(a, t)'
          /\ SeenCheckpoints(t)' = SeenCheckpoints(t)
          /\ ConflictEvidence(t)' = ConflictEvidence(t)
          /\ LatestAt(synced, t)' = LatestAt(synced, t)
      <3>1. PICK c \in Nat : c = t
        BY <2>1
      <3>2. Settled(c)
        BY <2>1, <3>1 DEF ReadStands
      <3> HIDE DEF t
      <3> QED
        BY <2>1, <3>1, <3>2, EvidenceStands
    <2> QED
      BY <2>1, <2>2 DEF ReadStands, HasSucceeded
  <1>2. InspectorStands'
    BY <1>1 DEF InspectorStands, Taken
  <1> QED
    BY <1>2, ReportsOutlast

\* The quality generation.
LEMMA ReaderSteps ==
    ASSUME Dates,
           \/ \E cutoff \in Cutoffs : StartQuality(cutoff)
           \/ CountConflicts \/ LoadCoverages
    PROVE  Dates' /\ SameRows /\ UNCHANGED <<now, inspector, reports>>
  <1>1. SameRows /\ UNCHANGED <<now, inspector, reports>>
    BY DEF StartQuality, CountConflicts, LoadCoverages, SameRows, acquisitionTables
  <1>2. ReaderFields \subseteq DOMAIN reader' /\ reader'.as_of \in Nat
    <2>1. ASSUME NEW c \in Cutoffs, StartQuality(c)
          PROVE  ReaderFields \subseteq DOMAIN reader' /\ reader'.as_of \in Nat
      BY <2>1, ReadinessAssumption DEF StartQuality, ReaderFields
    <2>2. ASSUME reader # Off
          PROVE  ReaderFields \subseteq DOMAIN reader /\ reader.as_of \in Nat
      BY <2>2 DEF Dates
    <2>3. reader.step # "off" => reader # Off
      BY DEF Off
    <2>4. CASE CountConflicts
      <3>1. ReaderFields \subseteq DOMAIN reader /\ reader.as_of \in Nat
        BY <2>2, <2>3, <2>4 DEF CountConflicts
      <3> QED
        BY <2>4, <3>1 DEF CountConflicts, ReaderFields
    <2>5. CASE LoadCoverages
      <3>1. ReaderFields \subseteq DOMAIN reader /\ reader.as_of \in Nat
        BY <2>2, <2>3, <2>5 DEF LoadCoverages
      <3> QED
        BY <2>5, <3>1 DEF LoadCoverages, ReaderFields
    <2> QED
      BY <2>1, <2>4, <2>5
  <1> QED
    BY <1>1, <1>2 DEF Dates, SameRows

\* An inspection reads and writes nothing that others read.
LEMMA InspectionAlone ==
    ASSUME \/ \E c \in Cutoffs : Inspect(c)
           \/ InspectOutcome \/ InspectCheckpoint \/ InspectConflicts \/ InspectSynced
    PROVE  SameRows /\ UNCHANGED <<now, reader, reports>>
  BY DEF Inspect, InspectOutcome, InspectCheckpoint, InspectConflicts, InspectSynced, SameRows,
         acquisitionTables

LEMMA InspectKeeps ==
    ASSUME ReadinessInv, NEW c \in Cutoffs, Inspect(c)
    PROVE  InspectorStands'
  <1>1. SameRows /\ UNCHANGED now /\ c \in Nat
    BY InspectionAlone, ReadinessAssumption
  <1>2. /\ InspectorFields \subseteq DOMAIN inspector'
        /\ inspector'.as_of = c /\ inspector'.step = "outcome"
        /\ inspector'.settled = Settled(c)
        /\ inspector'.attempts = AttemptEvidence(c) /\ inspector'.left = AttemptEvidence(c)
        /\ inspector'.outcomes = {} /\ inspector'.checkpoints = {}
    BY DEF Inspect, InspectorFields
  <1>3. Taken' = {} /\ Checked' = {}
    BY <1>2 DEF Taken, Checked
  <1>4. Settled(c) => ReadStands'
    BY <1>1, <1>2, <1>3, SameRowsSeen DEF ReadStands
  <1> QED
    BY <1>1, <1>2, <1>4 DEF InspectorStands

\* What is kept of an inspection that goes on.
SameInspection ==
    /\ InspectorFields \subseteq DOMAIN inspector'
    /\ inspector'.as_of = inspector.as_of /\ inspector'.attempts = inspector.attempts
    /\ inspector'.settled = inspector.settled

LEMMA OutcomeKeeps ==
    ASSUME ReadinessInv, InspectOutcome
    PROVE  InspectorStands'
  <1>1. SameRows /\ UNCHANGED now /\ inspector # Off /\ inspector.step = "outcome"
    <2>1. inspector.step = "outcome"
      BY DEF InspectOutcome
    <2> QED
      BY <2>1, InspectionAlone DEF Off
  <1>2. /\ InspectorFields \subseteq DOMAIN inspector /\ inspector.as_of \in Nat
        /\ inspector.left \subseteq inspector.attempts
        /\ inspector.settled => ReadStands
    BY <1>1 DEF ReadinessInv, InspectorStands
  <1>3. PICK a \in inspector.left :
          inspector' = [inspector EXCEPT !.step = "checkpoint", !.turn = <<a>>, !.left = @ \ {a},
                          !.outcomes = @ \cup OutcomeEvidence(a, inspector.as_of)]
    BY DEF InspectOutcome
  <1>4. /\ SameInspection
        /\ inspector'.step = "checkpoint" /\ inspector'.turn = <<a>>
        /\ inspector'.left = inspector.left \ {a}
        /\ inspector'.outcomes = inspector.outcomes \cup OutcomeEvidence(a, inspector.as_of)
        /\ inspector'.checkpoints = inspector.checkpoints
    BY <1>2, <1>3 DEF SameInspection, InspectorFields
  <1>5. Taken' = Taken \cup {a} /\ a \notin Taken /\ Checked = Taken
    BY <1>1, <1>2, <1>4 DEF Taken, Checked, SameInspection
  <1>6. Checked' = Checked
    <2>1. \A b \in Taken' : inspector'.turn # <<b>> <=> b # a
      BY <1>4
    <2> QED
      BY <1>4, <1>5, <2>1 DEF Checked
  <1>7. ASSUME inspector.settled PROVE ReadStands'
    <2>1. ReadStands
      BY <1>2, <1>7
    <2>2. PICK t \in Nat : t = inspector.as_of
      BY <1>2
    <2>3. ASSUME NEW c \in SeenCheckpoints(t), c.attempt = a.id
          PROVE  HasSucceeded(a, OutcomeEvidence(a, t))
      <3>1. c \in checkpoints /\ c.stamp <= t
        BY DEF SeenCheckpoints, Stored
      <3>2. PICK o \in outcomes : /\ o.attempt = c.attempt /\ o.reason = "succeeded"
                                  /\ o.completed \in Nat /\ o.completed <= c.stamp
                                  /\ c.stamp \in Nat
        BY <3>1 DEF ReadinessInv, CheckpointsConclude
      <3>3. o.completed <= t
        BY <3>1, <3>2
      <3> QED
        BY <2>3, <3>2, <3>3 DEF OutcomeEvidence, HasSucceeded
    <2>4. inspector'.outcomes = inspector.outcomes \cup OutcomeEvidence(a, t)
      BY <1>4, <2>2
    <2>5. ASSUME NEW b \in Taken', NEW c \in SeenCheckpoints(t), c.attempt = b.id
          PROVE  HasSucceeded(b, inspector'.outcomes)
      <3>1. CASE b = a
        <4>1. HasSucceeded(a, OutcomeEvidence(a, t))
          BY <2>3, <2>5, <3>1
        <4> QED
          BY <2>4, <3>1, <4>1 DEF HasSucceeded
      <3>2. CASE b \in Taken
        <4>1. HasSucceeded(b, inspector.outcomes)
          BY <2>1, <2>2, <2>5, <3>2 DEF ReadStands
        <4> QED
          BY <2>4, <4>1 DEF HasSucceeded
      <3> QED
        BY <1>5, <3>1, <3>2
    <2>6. inspector'.outcomes \subseteq UNION {OutcomeEvidence(b, t) : b \in inspector.attempts}
      BY <1>2, <2>1, <2>2, <2>4 DEF ReadStands
    <2>7. inspector'.as_of = t /\ inspector'.attempts = inspector.attempts
      BY <1>4, <2>2 DEF SameInspection
    <2>8. /\ Settled(t) /\ inspector.attempts = AttemptEvidence(t)
          /\ inspector.checkpoints = UNION {CheckpointEvidence(b.tf, t) : b \in Checked}
      BY <2>1, <2>2 DEF ReadStands
    <2>9. /\ Settled(t)' = Settled(t) /\ AttemptEvidence(t)' = AttemptEvidence(t)
          /\ SeenCheckpoints(t)' = SeenCheckpoints(t)
          /\ \A b : OutcomeEvidence(b, t)' = OutcomeEvidence(b, t)
          /\ \A tf : CheckpointEvidence(tf, t)' = CheckpointEvidence(tf, t)
      BY <1>1, SameRowsSeen
    <2>10. \A b \in Taken', c \in SeenCheckpoints(t) :
             c.attempt = b.id => HasSucceeded(b, inspector'.outcomes)
      BY <2>5
    <2> QED
      BY <1>4, <1>6, <2>6, <2>7, <2>8, <2>9, <2>10 DEF ReadStands, HasSucceeded
  <1> QED
    BY <1>2, <1>4, <1>5, <1>7 DEF InspectorStands, SameInspection

LEMMA CheckpointKeeps ==
    ASSUME ReadinessInv, InspectCheckpoint
    PROVE  InspectorStands'
  <1>1. SameRows /\ UNCHANGED now /\ inspector # Off /\ inspector.step = "checkpoint"
    BY InspectionAlone DEF InspectCheckpoint, Off
  <1>2. /\ InspectorFields \subseteq DOMAIN inspector /\ inspector.as_of \in Nat
        /\ inspector.left \subseteq inspector.attempts
        /\ inspector.settled => ReadStands
    BY <1>1 DEF ReadinessInv, InspectorStands
  <1>3. PICK a \in Taken : inspector.turn = <<a>>
    BY <1>1 DEF ReadinessInv, InspectorStands
  <1>4. /\ SameInspection
        /\ inspector'.step = "outcome" /\ inspector'.left = inspector.left
        /\ inspector'.outcomes = inspector.outcomes
        /\ inspector'.checkpoints =
             inspector.checkpoints \cup CheckpointEvidence(a.tf, inspector.as_of)
    BY <1>2, <1>3 DEF InspectCheckpoint, SameInspection, InspectorFields
  <1>5. Taken' = Taken /\ Checked' = Taken /\ Taken = Checked \cup {a}
    <2>1. \A b \in Taken : inspector.turn # <<b>> <=> b # a
      BY <1>3
    <2> QED
      BY <1>1, <1>3, <1>4, <2>1 DEF Taken, Checked, SameInspection
  <1>6. ASSUME inspector.settled PROVE ReadStands'
    <2>1. ReadStands
      BY <1>2, <1>6
    <2>2. inspector'.checkpoints = UNION {CheckpointEvidence(b.tf, inspector.as_of) : b \in Checked'}
      BY <1>4, <1>5, <2>1 DEF ReadStands
    <2> QED
      BY <1>1, <1>4, <1>5, <2>1, <2>2, SameRowsSeen DEF ReadStands, SameInspection, HasSucceeded
  <1> QED
    BY <1>2, <1>4, <1>6 DEF InspectorStands, SameInspection

LEMMA InspectorSteps ==
    ASSUME ReadinessInv, InspectConflicts \/ InspectSynced
    PROVE  InspectorStands'
  <1>1. SameRows /\ UNCHANGED now /\ inspector # Off
    BY InspectionAlone DEF InspectConflicts, InspectSynced, Off
  <1>2. /\ InspectorFields \subseteq DOMAIN inspector /\ inspector.as_of \in Nat
        /\ inspector.left = {}
        /\ inspector.settled => ReadStands
    BY <1>1 DEF ReadinessInv, InspectorStands, InspectConflicts, InspectSynced
  <1>3. /\ SameInspection /\ inspector'.left = {}
        /\ inspector'.outcomes = inspector.outcomes
        /\ inspector'.checkpoints = inspector.checkpoints
        /\ \/ /\ inspector'.step = "synced"
              /\ inspector'.conflicts = ConflictEvidence(inspector.as_of)
           \/ /\ inspector.step = "synced" /\ inspector'.step = "quality"
              /\ inspector'.conflicts = inspector.conflicts
              /\ inspector'.sync = LatestAt(synced, inspector.as_of)
    BY <1>2 DEF InspectConflicts, InspectSynced, SameInspection, InspectorFields
  <1>4. Taken' = Taken /\ Checked' = Taken /\ Checked = Taken
    <2>1. inspector.step # "checkpoint" /\ inspector'.step # "checkpoint"
      BY <1>3 DEF InspectConflicts, InspectSynced
    <2> QED
      BY <1>2, <1>3, <2>1 DEF Taken, Checked, SameInspection
  <1>5. ASSUME inspector.settled PROVE ReadStands'
    BY <1>1, <1>2, <1>3, <1>4, <1>5, SameRowsSeen DEF ReadStands, SameInspection, HasSucceeded
  <1> QED
    BY <1>2, <1>3, <1>5 DEF InspectorStands, SameInspection

LEMMA ReportKeeps ==
    ASSUME ReadinessInv, ReportReadiness
    PROVE  ReadinessInv'
  <1> DEFINE e == [attempts |-> inspector.attempts, outcomes |-> inspector.outcomes,
                   checkpoints |-> inspector.checkpoints, conflicts |-> inspector.conflicts,
                   sync |-> inspector.sync, quality |-> LatestAt(quality, inspector.as_of)]
             row == [as_of |-> inspector.as_of, settled |-> inspector.settled,
                     evidence |-> e, blockers |-> Blockers(e)]
  <1>1. /\ inspector' = Off /\ inspector.step = "quality" /\ reports' = reports \cup {row}
        /\ SameRows /\ UNCHANGED <<now, reader>>
    BY DEF ReportReadiness, SameRows, acquisitionTables
  <1>2. /\ inspector.as_of \in Nat /\ inspector.left = {}
        /\ inspector.settled => ReadStands
    BY <1>1 DEF ReadinessInv, InspectorStands, Off
  <1>3. ASSUME inspector.settled
        PROVE  /\ Settled(inspector.as_of) /\ Stands(row, Found(inspector.as_of))
               /\ \A a \in e.attempts, c \in e.checkpoints :
                    c.attempt = a.id => HasSucceeded(a, e.outcomes)
    <2>1. Taken = inspector.attempts /\ Checked = inspector.attempts
      BY <1>1, <1>2 DEF Taken, Checked
    <2>2. ReadStands
      BY <1>2, <1>3
    <2>3. PICK t \in Nat : t = inspector.as_of
      BY <1>2
    <2>4. e = EvidenceOf(t, inspector.outcomes)
          /\ inspector.outcomes \subseteq OutcomesOf(AttemptEvidence(t), t)
      <3>1. /\ inspector.attempts = AttemptEvidence(t)
            /\ inspector.checkpoints = CheckpointsOf(inspector.attempts, t)
            /\ inspector.conflicts = ConflictEvidence(t)
            /\ inspector.sync = LatestAt(synced, t)
            /\ inspector.outcomes \subseteq OutcomesOf(inspector.attempts, t)
        BY <1>1, <2>1, <2>2, <2>3 DEF ReadStands, CheckpointsOf, OutcomesOf
      <3> QED
        BY <2>3, <3>1 DEF EvidenceOf
    <2>5. row.evidence = e /\ e.outcomes = inspector.outcomes
      OBVIOUS
    <2> HIDE DEF row, e
    <2>6. Stands(row, Found(t))
      BY <2>4, <2>5, StandsWhenFieldsDo
    <2>7. \A c \in inspector.checkpoints : c \in SeenCheckpoints(inspector.as_of)
      BY <2>2 DEF ReadStands, CheckpointEvidence, SeenCheckpoints
    <2>8. \A a \in inspector.attempts, c \in inspector.checkpoints :
            c.attempt = a.id => HasSucceeded(a, inspector.outcomes)
      BY <2>1, <2>2, <2>7 DEF ReadStands
    <2>9. e.attempts = inspector.attempts /\ e.checkpoints = inspector.checkpoints
      BY DEF e
    <2> QED
      BY <2>2, <2>3, <2>5, <2>6, <2>8, <2>9 DEF ReadStands
  <1>4. /\ row.as_of = inspector.as_of /\ row.settled = inspector.settled
        /\ row.evidence = e /\ row.blockers = Blockers(e)
    OBVIOUS
  <1> HIDE DEF row, e
  <1>5. \A r \in reports' : r.settled =>
          /\ r.as_of \in Nat /\ Settled(r.as_of)
          /\ Stands(r, Found(r.as_of))
          /\ \A a \in r.evidence.attempts, c \in r.evidence.checkpoints :
               c.attempt = a.id => HasSucceeded(a, r.evidence.outcomes)
          /\ r.blockers = Blockers(r.evidence)
    BY <1>1, <1>2, <1>3, <1>4 DEF ReadinessInv, ReportsStand
  <1>6. \A t : Settled(t)' = Settled(t) /\ Found(t)' = Found(t)
    <2> TAKE t
    <2>1. LatestAt(quality, t)' = LatestAt(quality, t)
      BY <1>1 DEF SameRows, LatestAt, Stored, Precedes
    <2>2. /\ Settled(t)' = Settled(t) /\ AttemptEvidence(t)' = AttemptEvidence(t)
          /\ ConflictEvidence(t)' = ConflictEvidence(t)
          /\ LatestAt(synced, t)' = LatestAt(synced, t)
          /\ \A tf : CheckpointEvidence(tf, t)' = CheckpointEvidence(tf, t)
          /\ \A a : OutcomeEvidence(a, t)' = OutcomeEvidence(a, t)
      BY <1>1, SameRowsSeen
    <2>3. CheckpointsOf(AttemptEvidence(t), t)' = CheckpointsOf(AttemptEvidence(t), t)
      BY <2>2 DEF CheckpointsOf
    <2>4. OutcomesOf(AttemptEvidence(t), t)' = OutcomesOf(AttemptEvidence(t), t)
      BY <2>2 DEF OutcomesOf
    <2> QED
      BY <2>1, <2>2, <2>3, <2>4, FoundIs DEF EvidenceOf
  <1>7. ReportsStand'
    BY <1>5, <1>6 DEF ReportsStand, Stands, HasSucceeded, Blockers
  <1> QED
    BY <1>1, <1>7 DEF ReadinessInv, InspectorStands, Dates, CheckpointsConclude, SameRows

LEMMA StopKeeps == ASSUME ReadinessInv, StopReading PROVE ReadinessInv'
  <1>1. /\ SameRows /\ UNCHANGED <<now, reports>>
        /\ reader' = reader \/ reader' = Off
        /\ inspector' = inspector \/ inspector' = Off
    BY DEF StopReading, SameRows, acquisitionTables
  <1>2. Dates' /\ CheckpointsConclude'
    BY <1>1 DEF ReadinessInv, Dates, CheckpointsConclude, SameRows
  <1>3. NothingSeen
    BY <1>1, SameRowsSeen
  <1>4. ReportsStand'
    BY <1>1, <1>3, ReportsOutlast DEF ReadinessInv
  <1>5. InspectorStands'
    <2>1. CASE inspector' = inspector
      BY <1>1, <1>3, <2>1, StandsBeside DEF ReadinessInv
    <2>2. CASE inspector' = Off
      BY <2>2 DEF InspectorStands
    <2> QED
      BY <1>1, <2>1, <2>2
  <1> QED
    BY <1>2, <1>4, <1>5 DEF ReadinessInv

LEMMA ReadinessNextKeeps == ReadinessInv /\ [ReadinessNext]_readinessVars => ReadinessInv'
  <1> SUFFICES ASSUME ReadinessInv, [ReadinessNext]_readinessVars PROVE ReadinessInv'
    OBVIOUS
  <1>1. ASSUME SameRows, UNCHANGED <<now, reports>>, InspectorStands', Dates'
        PROVE  ReadinessInv'
    <2>1. ReportsStand'
      BY <1>1, SameRowsSeen, ReportsOutlast DEF ReadinessInv
    <2>2. CheckpointsConclude'
      BY <1>1 DEF ReadinessInv, CheckpointsConclude, SameRows
    <2> QED
      BY <1>1, <2>1, <2>2 DEF ReadinessInv
  <1>2. ASSUME SameRows, UNCHANGED <<now, inspector, reports>>, Dates'
        PROVE  ReadinessInv'
    BY <1>1, <1>2, SameRowsSeen, StandsBeside DEF ReadinessInv
  <1>3. CASE UNCHANGED readinessVars
    BY <1>2, <1>3 DEF readinessVars, ReadinessInv, Dates, SameRows
  <1>4. CASE \/ PassTime \/ IngestPage \/ DisputeCandle
             \/ RecordAttempt \/ RecordFailure \/ CloseInterrupted \/ RecordCheckpoint
             \/ \E cutoff \in Cutoffs : Synchronize(cutoff)
             \/ PersistQuality
    BY <1>4, CommitsUnseen, StandsBeside DEF ReadinessInv
  <1>5. CASE (\E cutoff \in Cutoffs : StartQuality(cutoff)) \/ CountConflicts \/ LoadCoverages
    BY <1>2, <1>5, ReaderSteps DEF ReadinessInv
  <1>6. CASE \/ \E cutoff \in Cutoffs : Inspect(cutoff)
             \/ InspectOutcome \/ InspectCheckpoint \/ InspectConflicts \/ InspectSynced
    <2>1. SameRows /\ UNCHANGED <<now, reader, reports>>
      BY <1>6, InspectionAlone
    <2>2. InspectorStands'
      BY <1>6, InspectKeeps, OutcomeKeeps, CheckpointKeeps, InspectorSteps
    <2>3. Dates'
      BY <2>1 DEF ReadinessInv, Dates, SameRows
    <2> QED
      BY <1>1, <2>1, <2>2, <2>3
  <1> QED
    BY <1>3, <1>4, <1>5, <1>6, ReportKeeps, StopKeeps DEF ReadinessNext

\* The verdict of a readiness report for a settled cutoff stands whatever is
\* committed while it is built and afterwards, the outcomes it names are final,
\* and a ready one had no conflict on record by then. Only the outcome of an
\* attempt without a checkpoint may come later (load_historical_operational_
\* inspection, _acquisition_evidence).
THEOREM SettledReportsAlwaysStand == ReadinessSpec => []SettledReportsStand
  <1>1. ReadinessInit => ReadinessInv
    BY DEF ReadinessInit, ReadinessInv, Dates, Dated, CheckpointsConclude, InspectorStands,
           ReportsStand
  <1>2. ReadinessInv => SettledReportsStand
    <2> SUFFICES ASSUME ReadinessInv, NEW r \in reports, r.settled
                 PROVE  LET found == Found(r.as_of)
                            named == r.evidence.outcomes
                        IN  /\ r.evidence = [found EXCEPT !.outcomes = named]
                            /\ named \subseteq found.outcomes
                            /\ \A a \in r.evidence.attempts, c \in r.evidence.checkpoints :
                                 c.attempt = a.id =>
                                   \E o \in named : o.attempt = a.id /\ o.reason = "succeeded"
                            /\ r.blockers = Blockers(found)
                            /\ r.blockers = {} =>
                                 {c \in disputes : c.slot <= r.as_of /\ c.stamp <= r.as_of} = {}
      BY DEF SettledReportsStand
    <2> DEFINE found == Found(r.as_of)
               named == r.evidence.outcomes
    <2>1. /\ r.evidence = [found EXCEPT !.outcomes = named] /\ named \subseteq found.outcomes
          /\ r.blockers = Blockers(r.evidence)
          /\ \A a \in r.evidence.attempts, c \in r.evidence.checkpoints :
               c.attempt = a.id => HasSucceeded(a, named)
      BY DEF ReadinessInv, ReportsStand, Stands
    <2>2. /\ r.evidence.attempts = found.attempts /\ r.evidence.checkpoints = found.checkpoints
          /\ r.evidence.conflicts = found.conflicts /\ r.evidence.sync = found.sync
          /\ r.evidence.quality = found.quality
          /\ found.conflicts = ConflictEvidence(r.as_of)
      BY <2>1 DEF Found
    <2> HIDE DEF found, named
    <2>3. r.blockers = Blockers(found)
      BY <2>1, <2>2 DEF Blockers, AcquisitionBlockers, ConflictBlockers, SynchronizationBlockers,
                        QualityBlockers, ProvenanceBlockers
    <2>4. r.blockers = {} => r.evidence.conflicts = {}
      BY <2>1 DEF Blockers, ConflictBlockers
    <2>5. r.blockers = {} => {c \in disputes : c.slot <= r.as_of /\ c.stamp <= r.as_of} = {}
      BY <2>2, <2>4 DEF ConflictEvidence, Stored
    <2> QED
      BY <2>1, <2>3, <2>5 DEF HasSucceeded, found, named
  <1> QED
    BY <1>1, <1>2, ReadinessNextKeeps, PTL DEF ReadinessSpec

-----------------------------------------------------------------------------
\* What a client waits for.
Handled(h) ==
    /\ h.step \in {"idle", "load", "dashboard", "audit"}
    /\ h.step # "idle" => h.id \in Nat \ {0} /\ h.request \in RequestRows
    /\ h.step = "audit" => h.answer \in Answers

PredictionTypes ==
    /\ holdoutReported \in BOOLEAN /\ artifacts \subseteq Packagers
    /\ packager \in [Packagers -> {"idle", "fit"}]
    /\ packaged \subseteq PackagedRows
    /\ received \in Nat /\ handling = [c \in Clients |-> handling[c]]
    /\ \A c \in Clients : Handled(handling[c])
    /\ audits \subseteq AuditRows /\ delivered \subseteq AuditRows
    /\ counters \in [requests : Nat, successes : Nat, predictions : Nat]

LEMMA RefusedTyped ==
    ASSUME NEW status \in {404, 405, 413, 422, 500, 503}, NEW code \in Codes,
           NEW a \in Packagers \cup {NoArtifact}
    PROVE  Refused(status, code, a) \in Answers
  BY DEF Refused, Answers

LEMMA SucceededTyped ==
    ASSUME NEW a \in Packagers \cup {NoArtifact},
           NEW p \in {NoPrediction} \cup (Packagers \X Nat)
    PROVE  Succeeded(a, p) \in Answers
  <1>1. "none" \in Codes
    BY DEF Codes, BodyFaults
  <1> QED
    BY <1>1 DEF Succeeded, Answers

\* Whatever is answered without the artifact is an answer, and so is what
\* replaces an answer that could not be audited.
LEMMA AtOnceTyped ==
    ASSUME NEW r \in RequestRows
    PROVE  AnswerAtOnce(r) \in Answers /\ Unreadable \in Answers
  <1>1. r.fault \in Codes
    BY DEF RequestRows, Codes
  <1> QED
    BY <1>1, RefusedTyped, SucceededTyped DEF AnswerAtOnce, Unreadable, Codes

LEMMA UnauditedTyped ==
    ASSUME NEW answer \in Answers
    PROVE  Unaudited(answer) \in Answers
  <1>1. answer.artifact \in Packagers \cup {NoArtifact}
    BY DEF Answers
  <1>2. "AUDIT_PERSISTENCE_UNAVAILABLE" \in Codes
    BY DEF Codes
  <1> QED
    BY <1>1, <1>2, RefusedTyped DEF Unaudited

\* The handler may raise instead.
LEMMA CallNextTyped ==
    ASSUME NEW r, NEW answer \in Answers, NEW sent \in CallNext(r, answer)
    PROVE  sent \in Answers
  <1>1. "INTERNAL_ERROR" \in Codes
    BY DEF Codes
  <1> QED
    BY <1>1 DEF CallNext, Answers

\* What is answered with an artifact.
LEMMA AnswersTyped ==
    ASSUME NEW r \in RequestRows, NEW a \in Packagers
    PROVE  /\ AnswerWith(r, a) \in Answers
           /\ Succeeded(a, NoPrediction) \in Answers
           /\ Refused(503, "DASHBOARD_DATA_UNAVAILABLE", a) \in Answers
  <1>1. r.fault \in Codes /\ r.features \in Nat
    BY DEF RequestRows, Codes
  <1>2. <<a, r.features>> \in Packagers \X Nat
    BY <1>1
  <1> QED
    BY <1>1, <1>2, RefusedTyped, SucceededTyped DEF AnswerWith, Codes

LEMMA PackagingTyped ==
    ASSUME PredictionTypes, NEW p \in Packagers,
           ReportHoldout \/ StartPackaging(p) \/ CommitArtifact(p) \/ AbandonPackaging(p)
    PROVE  PredictionTypes'
  <1>1. UNCHANGED <<received, handling, audits, delivered, counters>>
    BY DEF ReportHoldout, StartPackaging, CommitArtifact, AbandonPackaging, servingVars
  <1>2. CASE ReportHoldout
    BY <1>1, <1>2 DEF ReportHoldout, PredictionTypes
  <1>3. CASE StartPackaging(p)
    <2>1. artifacts' = artifacts /\ holdoutReported' = holdoutReported
          /\ packager' \in [Packagers -> {"idle", "fit"}]
      BY <1>3 DEF StartPackaging, PredictionTypes
    <2>2. packaged' \subseteq PackagedRows
      <3>1. \A a \in artifacts : [artifact |-> a, created |-> FALSE] \in PackagedRows
        BY DEF PredictionTypes, PackagedRows
      <3>2. packaged' \subseteq packaged \cup {[artifact |-> a, created |-> FALSE] : a \in artifacts}
        BY <1>3 DEF StartPackaging
      <3> QED
        BY <3>1, <3>2 DEF PredictionTypes
    <2> QED
      BY <1>1, <2>1, <2>2 DEF PredictionTypes
  <1>4. CASE CommitArtifact(p)
    <2>1. holdoutReported' = holdoutReported /\ packager' \in [Packagers -> {"idle", "fit"}]
      BY <1>4 DEF CommitArtifact, PredictionTypes
    <2>2. artifacts' \subseteq Packagers /\ packaged' \subseteq PackagedRows
      <3>1. [artifact |-> p, created |-> TRUE] \in PackagedRows
        BY DEF PackagedRows
      <3>2. /\ artifacts' \subseteq artifacts \cup {p}
            /\ packaged' \subseteq packaged \cup {[artifact |-> p, created |-> TRUE]}
        BY <1>4 DEF CommitArtifact
      <3> QED
        BY <3>1, <3>2 DEF PredictionTypes
    <2> QED
      BY <1>1, <2>1, <2>2 DEF PredictionTypes
  <1>5. CASE AbandonPackaging(p)
    BY <1>1, <1>5 DEF AbandonPackaging, PredictionTypes
  <1> QED
    BY <1>2, <1>3, <1>4, <1>5

\* A handling step of a client that leaves the tables alone.
LEMMA HandlingTyped ==
    ASSUME PredictionTypes, NEW c \in Clients, NEW h, Handle(c, h), Handled(h), received' \in Nat,
           UNCHANGED <<audits, delivered, counters, packagingVars>>
    PROVE  PredictionTypes'
  <1>1. /\ handling' = [e \in Clients |-> handling'[e]]
        /\ \A e \in Clients : Handled(handling'[e])
    BY HandleStep DEF PredictionTypes
  <1> QED
    BY <1>1 DEF PredictionTypes, packagingVars

LEMMA ReceiveTyped ==
    ASSUME PredictionTypes, NEW c \in Clients, NEW r \in Requests, Receive(c, r)
    PROVE  PredictionTypes'
  <1>1. /\ received' = received + 1 /\ received' \in Nat \ {0} /\ r \in RequestRows
        /\ UNCHANGED <<audits, delivered, counters, packagingVars>>
    BY PredictionAssumption DEF Receive, PredictionTypes
  <1>2. CASE NeedsArtifact(r)
    <2>1. Handle(c, [step |-> "load", id |-> received', request |-> r])
      BY <1>2 DEF Receive
    <2>2. Handled([step |-> "load", id |-> received', request |-> r])
      BY <1>1 DEF Handled
    <2> QED
      BY <1>1, <2>1, <2>2, HandlingTyped
  <1>3. CASE ~ NeedsArtifact(r)
    <2>1. PICK answer \in CallNext(r, AnswerAtOnce(r)) :
            Handle(c, Answered(received', r, answer))
      BY <1>3 DEF Receive
    <2>2. answer \in Answers
      BY <1>1, AtOnceTyped, CallNextTyped
    <2>3. Handled(Answered(received', r, answer))
      BY <1>1, <2>2 DEF Handled, Answered
    <2> QED
      BY <1>1, <2>1, <2>3, HandlingTyped
  <1> QED
    BY <1>2, <1>3

LEMMA LoadTyped ==
    ASSUME PredictionTypes, NEW c \in Clients, LoadArtifact(c) \/ LoadDashboard(c)
    PROVE  PredictionTypes'
  <1> DEFINE g == handling[c]
  <1>1. UNCHANGED <<received, audits, delivered, counters, packagingVars>>
    BY DEF LoadArtifact, LoadDashboard
  <1>2. g.id \in Nat \ {0} /\ g.request \in RequestRows
    BY DEF LoadArtifact, LoadDashboard, PredictionTypes, Handled
  <1>3. \A answer \in Answers : Handled(Answered(g.id, g.request, answer))
    BY <1>2 DEF Handled, Answered
  <1>4. PICK h : Handle(c, h) /\ Handled(h)
    <2>1. Handled([step |-> "dashboard", id |-> g.id, request |-> g.request])
      BY <1>2 DEF Handled
    <2>2. \A a \in artifacts :
            /\ AnswerWith(g.request, a) \in Answers
            /\ Succeeded(a, NoPrediction) \in Answers
            /\ Refused(503, "DASHBOARD_DATA_UNAVAILABLE", a) \in Answers
      BY <1>2, AnswersTyped DEF PredictionTypes
    <2>3. Unreadable \in Answers
      BY <1>2, AtOnceTyped
    <2>4. \/ Handle(c, [step |-> "dashboard", id |-> g.id, request |-> g.request])
          \/ \E answer \in Answers : \E sent \in CallNext(g.request, answer) :
               Handle(c, Answered(g.id, g.request, sent))
      <3>1. CASE LoadArtifact(c)
        BY <2>2, <2>3, <3>1 DEF LoadArtifact
      <3>2. CASE LoadDashboard(c)
        BY <2>2, <3>2 DEF LoadDashboard
      <3> QED
        BY <3>1, <3>2
    <2>5. \A answer \in Answers : \A sent \in CallNext(g.request, answer) :
            Handled(Answered(g.id, g.request, sent))
      BY <1>3, CallNextTyped
    <2> QED
      BY <2>1, <2>4, <2>5
  <1> QED
    BY <1>1, <1>4, HandlingTyped DEF PredictionTypes

LEMMA WriteAuditTyped ==
    ASSUME PredictionTypes, NEW c \in Clients, WriteAudit(c)
    PROVE  PredictionTypes'
  <1> DEFINE h == handling[c]
  <1>1. PICK committed \in BOOLEAN, acknowledged \in BOOLEAN :
          LET sent == IF acknowledged THEN h.answer ELSE Unaudited(h.answer)
          IN  /\ audits' = IF committed
                           THEN audits \cup {[id |-> h.id, request |-> h.request, answer |-> h.answer]}
                           ELSE audits
              /\ delivered' = delivered \cup {[id |-> h.id, request |-> h.request, answer |-> sent]}
              /\ counters' =
                   [requests |-> counters.requests + 1,
                    successes |-> counters.successes + (IF sent.status < 400 THEN 1 ELSE 0),
                    predictions |-> counters.predictions +
                                    (IF h.answer.prediction # NoPrediction THEN 1 ELSE 0)]
    BY DEF WriteAudit
  <1>2. Handle(c, Waiting) /\ UNCHANGED <<received, packagingVars>>
    BY DEF WriteAudit
  <1>3. h.id \in Nat \ {0} /\ h.request \in RequestRows /\ h.answer \in Answers
    BY DEF WriteAudit, PredictionTypes, Handled
  <1>4. Unaudited(h.answer) \in Answers
    BY <1>3, UnauditedTyped
  <1>5. \A answer \in Answers : [id |-> h.id, request |-> h.request, answer |-> answer] \in AuditRows
    BY <1>3 DEF AuditRows
  <1>6. audits' \subseteq AuditRows /\ delivered' \subseteq AuditRows
    BY <1>1, <1>3, <1>4, <1>5 DEF PredictionTypes
  <1>7. counters' \in [requests : Nat, successes : Nat, predictions : Nat]
    <2>1. PICK i \in {0, 1}, j \in {0, 1} :
            counters' = [requests |-> counters.requests + 1, successes |-> counters.successes + i,
                         predictions |-> counters.predictions + j]
      BY <1>1
    <2>2. counters.requests \in Nat /\ counters.successes \in Nat /\ counters.predictions \in Nat
      BY DEF PredictionTypes
    <2> QED
      BY <2>1, <2>2
  <1>8. handling' = [e \in Clients |-> handling'[e]] /\ \A e \in Clients : Handled(handling'[e])
    <2>1. Handled(Waiting)
      BY DEF Handled, Waiting
    <2> QED
      BY <1>2, <2>1, HandleStep DEF PredictionTypes
  <1> QED
    BY <1>2, <1>6, <1>7, <1>8 DEF PredictionTypes, packagingVars

\* The tables, the counters and whatever a request waits for keep their types,
\* for any clients, packagers, requests, restarts and failing audits.
THEOREM PredictionTypeCorrect == PredictionSpec => []PredictionTypeOK
  <1>1. PredictionInit => PredictionTypes
    <2> SUFFICES ASSUME PredictionInit PROVE PredictionTypes
      OBVIOUS
    <2>1. /\ handling = [c \in Clients |-> handling[c]]
          /\ \A c \in Clients : Handled(handling[c])
      BY DEF PredictionInit, Handled, Waiting
    <2>2. counters \in [requests : Nat, successes : Nat, predictions : Nat]
      BY DEF PredictionInit, Zero
    <2>3. packager \in [Packagers -> {"idle", "fit"}]
      BY DEF PredictionInit
    <2> QED
      BY <2>1, <2>2, <2>3 DEF PredictionInit, PredictionTypes
  <1>2. PredictionTypes /\ [PredictionNext]_predictionVars => PredictionTypes'
    <2> SUFFICES ASSUME PredictionTypes, [PredictionNext]_predictionVars PROVE PredictionTypes'
      OBVIOUS
    <2>1. CASE UNCHANGED predictionVars
      BY <2>1 DEF predictionVars, PredictionTypes
    <2>2. CASE ReportHoldout
      BY <2>2 DEF ReportHoldout, servingVars, PredictionTypes
    <2>3. CASE RestartAPI
      BY <2>3 DEF RestartAPI, packagingVars, PredictionTypes, Handled, Waiting, Zero
    <2> QED
      BY <2>1, <2>2, <2>3, PackagingTyped, ReceiveTyped, LoadTyped, WriteAuditTyped DEF PredictionNext
  <1>3. PredictionTypes => PredictionTypeOK
    BY DEF PredictionTypes, PredictionTypeOK, Handled
  <1> QED
    BY <1>1, <1>2, <1>3, PTL DEF PredictionSpec

-----------------------------------------------------------------------------
\* What the quality generation has read of some timeframes.
Partial(f, S) ==
    /\ DOMAIN f \subseteq Timeframes /\ \A tf \in DOMAIN f : f[tf] \in S
    /\ DOMAIN f # {} => f = [tf \in DOMAIN f |-> f[tf]]

ReaderAt(step, conflicts, coverage) ==
    \/ step = "conflicts" /\ conflicts = coverage /\ conflicts # Timeframes
    \/ step = "coverage" /\ \E tf \in Timeframes \ coverage : conflicts = coverage \cup {tf}
    \/ step = "persist" /\ conflicts = Timeframes /\ coverage = Timeframes

Reading(r) ==
    \E step, as_of, conflicts, coverage :
        /\ r = [step |-> step, as_of |-> as_of, conflicts |-> conflicts, coverage |-> coverage]
        /\ as_of \in Slots
        /\ Partial(conflicts, Nat) /\ Partial(coverage, SUBSET Slots)
        /\ ReaderAt(step, DOMAIN conflicts, DOMAIN coverage)

SyncedRows == [as_of : Slots, stamp : Slots, coverage : [Timeframes -> SUBSET Slots]]
QualityRows == [as_of : Slots, stamp : Slots, conflicts : [Timeframes -> Nat],
                coverage : [Timeframes -> SUBSET Slots]]

RowsTyped ==
    /\ ingested \subseteq [tf : Timeframes, slot : Slots, stamp : Slots]
    /\ disputes \subseteq [tf : Natives, slot : Slots, stamp : Slots]
    /\ attempts \subseteq Acquisitions /\ \A a \in attempts : a.stamp \in Slots
    /\ outcomes \subseteq [attempt : Nat, completed : Slots, reason : Reasons]
    /\ checkpoints \subseteq [attempt : Nat, tf : Natives, stamp : Slots]
    /\ \A a, b \in attempts : a.id = b.id => a = b
    /\ \A o, p \in outcomes : o.attempt = p.attempt => o = p

ReportsTyped ==
    /\ \A i \in DOMAIN synced : synced[i] \in SyncedRows
    /\ \A i \in DOMAIN quality : quality[i] \in QualityRows

ReadinessTypes ==
    /\ now \in 1 .. MaxNow /\ IsFiniteSet(disputes) /\ RowsTyped /\ ReportsTyped
    /\ reader = Off \/ Reading(reader)

LEMMA StampsAreSlots == ASSUME now \in 1 .. MaxNow PROVE Stamps \subseteq Slots
  BY ReadinessBounds DEF Stamps, Slots

\* One more timeframe.
LEMMA WithTyped ==
    ASSUME NEW f, NEW S, Partial(f, S), NEW tf, tf \in Timeframes, NEW x, x \in S
    PROVE  Partial(With(f, tf, x), S) /\ DOMAIN With(f, tf, x) = DOMAIN f \cup {tf}
  BY DEF Partial, With

LEMMA ReadTyped ==
    ASSUME ReadinessTypes, NEW tf, NEW t
    PROVE  Cardinality(OpenConflicts(tf, t)) \in Nat /\ Coverage(tf, t) \in SUBSET Slots
  <1>1. IsFiniteSet(OpenConflicts(tf, t))
    BY FS_Subset DEF OpenConflicts, ReadinessTypes
  <1>2. Coverage(tf, t) \subseteq Slots
    BY DEF Coverage, ReadinessTypes, RowsTyped
  <1> QED
    BY <1>1, <1>2, FS_CardinalityType

LEMMA IngestTyped == ASSUME ReadinessTypes, IngestPage PROVE ReadinessTypes'
  <1>1. PICK page \in Pages, s \in Stamps :
          /\ \A t \in page[2] : t <= s
          /\ ingested' = ingested \cup
               {[tf |-> page[1], slot |-> t, stamp |-> s] : t \in page[2] \ SlotsOf(page[1])}
    BY DEF IngestPage
  <1>2. page[1] \in Timeframes /\ page[2] \subseteq Nat /\ s \in Slots
    BY ReadinessBounds, StampsAreSlots DEF ReadinessTypes
  <1>3. \A t \in page[2] : t \in Slots
    BY <1>1, <1>2, ReadinessBounds DEF Slots
  <1>4. ingested' \subseteq [tf : Timeframes, slot : Slots, stamp : Slots]
    BY <1>1, <1>2, <1>3 DEF ReadinessTypes, RowsTyped
  <1>5. UNCHANGED <<now, disputes, attempts, outcomes, checkpoints, synced, quality, reader>>
    BY DEF IngestPage, acquisitionTables
  <1> QED
    BY <1>4, <1>5 DEF ReadinessTypes, RowsTyped, ReportsTyped

LEMMA DisputeTyped == ASSUME ReadinessTypes, DisputeCandle PROVE ReadinessTypes'
  <1>1. PICK tf \in Natives, s \in Stamps : \E t \in SlotsOf(tf) :
          disputes' = disputes \cup {[tf |-> tf, slot |-> t, stamp |-> s]}
    BY DEF DisputeCandle
  <1>2. PICK t \in SlotsOf(tf) :
          disputes' = disputes \cup {[tf |-> tf, slot |-> t, stamp |-> s]}
    BY <1>1
  <1>3. t \in Slots /\ s \in Slots
    BY StampsAreSlots DEF SlotsOf, ReadinessTypes, RowsTyped
  <1>4. IsFiniteSet(disputes')
    BY <1>2, FS_AddElement DEF ReadinessTypes
  <1>5. disputes' \subseteq [tf : Natives, slot : Slots, stamp : Slots]
    BY <1>2, <1>3 DEF ReadinessTypes, RowsTyped
  <1>6. UNCHANGED <<now, ingested, attempts, outcomes, checkpoints, synced, quality, reader>>
    BY DEF DisputeCandle, acquisitionTables
  <1> QED
    BY <1>4, <1>5, <1>6 DEF ReadinessTypes, RowsTyped, ReportsTyped

\* What an outcome and a checkpoint take from their attempt.
LEMMA AttemptTyped ==
    ASSUME ReadinessTypes, NEW a \in attempts
    PROVE  a.id \in Nat /\ a.tf \in Natives /\ a.started \in Slots
  <1>1. a \in [id : Nat, tf : Natives, started : Nat, stamp : Nat] /\ a.started <= a.stamp
    BY ReadinessBounds DEF ReadinessTypes, RowsTyped
  <1>2. a.stamp \in 0 .. MaxNow
    BY DEF ReadinessTypes, RowsTyped, Slots
  <1> QED
    BY <1>1, <1>2, ReadinessBounds DEF Slots

LEMMA ConcludeTyped ==
    ASSUME ReadinessTypes, NEW a \in attempts, NEW completed \in Slots, NEW reason \in Reasons,
           Conclude(a, completed, reason)
    PROVE  /\ outcomes' \subseteq [attempt : Nat, completed : Slots, reason : Reasons]
           /\ \A o, p \in outcomes' : o.attempt = p.attempt => o = p
  <1> DEFINE row == [attempt |-> a.id, completed |-> completed, reason |-> reason]
  <1>1. outcomes' = outcomes \cup {row} /\ \A o \in outcomes : o.attempt # a.id
    BY DEF Conclude
  <1>2. row \in [attempt : Nat, completed : Slots, reason : Reasons] /\ row.attempt = a.id
    BY AttemptTyped
  <1> HIDE DEF row
  <1> QED
    BY <1>1, <1>2 DEF ReadinessTypes, RowsTyped

LEMMA AcquisitionTyped ==
    ASSUME ReadinessTypes,
           RecordAttempt \/ RecordFailure \/ CloseInterrupted \/ RecordCheckpoint
    PROVE  ReadinessTypes'
  <1>1. UNCHANGED <<now, ingested, disputes, synced, quality, reader>>
    BY DEF RecordAttempt, RecordFailure, CloseInterrupted, RecordCheckpoint
  <1>2. "failed" \in Reasons /\ "succeeded" \in Reasons
    BY DEF Reasons
  <1>3. CASE RecordAttempt
    <2>1. PICK a \in Acquisitions :
            /\ a.stamp \in Stamps /\ \A b \in attempts : b.id # a.id
            /\ attempts' = attempts \cup {a}
      BY <1>3 DEF RecordAttempt
    <2>2. a.stamp \in Slots
      BY <2>1, StampsAreSlots DEF ReadinessTypes
    <2>3. UNCHANGED <<outcomes, checkpoints>>
      BY <1>3 DEF RecordAttempt
    <2> QED
      BY <1>1, <2>1, <2>2, <2>3 DEF ReadinessTypes, RowsTyped, ReportsTyped
  <1>4. CASE RecordFailure
    <2>1. PICK a \in attempts : Conclude(a, a.started, "failed")
      BY <1>4 DEF RecordFailure
    <2>2. UNCHANGED <<attempts, checkpoints>>
      BY <1>4 DEF RecordFailure
    <2> QED
      BY <1>1, <1>2, <2>1, <2>2, AttemptTyped, ConcludeTyped
         DEF ReadinessTypes, RowsTyped, ReportsTyped
  <1>5. CASE CloseInterrupted
    <2>1. PICK a \in attempts, s \in Stamps : Conclude(a, s, "failed")
      BY <1>5 DEF CloseInterrupted
    <2>2. s \in Slots
      BY StampsAreSlots DEF ReadinessTypes
    <2>3. UNCHANGED <<attempts, checkpoints>>
      BY <1>5 DEF CloseInterrupted
    <2> QED
      BY <1>1, <1>2, <2>1, <2>2, <2>3, ConcludeTyped
         DEF ReadinessTypes, RowsTyped, ReportsTyped
  <1>6. CASE RecordCheckpoint
    <2>1. PICK a \in attempts, s \in Stamps :
            /\ Conclude(a, a.started, "succeeded")
            /\ checkpoints' = checkpoints \cup {[attempt |-> a.id, tf |-> a.tf, stamp |-> s]}
      BY <1>6 DEF RecordCheckpoint
    <2>2. a.id \in Nat /\ a.tf \in Natives /\ a.started \in Slots /\ s \in Slots
      BY StampsAreSlots, AttemptTyped DEF ReadinessTypes
    <2>3. checkpoints' \subseteq [attempt : Nat, tf : Natives, stamp : Slots]
      BY <2>1, <2>2 DEF ReadinessTypes, RowsTyped
    <2>4. UNCHANGED attempts
      BY <1>6 DEF RecordCheckpoint
    <2>5. /\ outcomes' \subseteq [attempt : Nat, completed : Slots, reason : Reasons]
          /\ \A o, p \in outcomes' : o.attempt = p.attempt => o = p
      BY <1>2, <2>1, <2>2, ConcludeTyped
    <2> QED
      BY <1>1, <2>3, <2>4, <2>5 DEF ReadinessTypes, RowsTyped, ReportsTyped
  <1> QED
    BY <1>3, <1>4, <1>5, <1>6

LEMMA AppendTyped ==
    ASSUME NEW s, Dated(s), NEW S, \A i \in DOMAIN s : s[i] \in S, NEW row \in S
    PROVE  \A i \in DOMAIN Append(s, row) : Append(s, row)[i] \in S
  <1>1. /\ DOMAIN Append(s, row) = 1 .. Len(s) + 1
        /\ Append(s, row)[Len(s) + 1] = row
        /\ \A i \in DOMAIN s : Append(s, row)[i] = s[i]
    BY DEF Dated
  <1> QED
    BY <1>1 DEF Dated

LEMMA SynchronizeTyped ==
    ASSUME ReadinessTypes, Dates, NEW c \in Cutoffs, Synchronize(c)
    PROVE  ReadinessTypes'
  <1>1. PICK s \in Stamps :
          synced' = Append(synced, [as_of |-> c, stamp |-> s,
                                    coverage |-> [tf \in Timeframes |-> Coverage(tf, c)]])
    BY DEF Synchronize
  <1>2. c \in Slots /\ s \in Slots
    BY ReadinessBounds, StampsAreSlots DEF ReadinessTypes, Slots
  <1>3. [tf \in Timeframes |-> Coverage(tf, c)] \in [Timeframes -> SUBSET Slots]
    BY ReadTyped
  <1>4. [as_of |-> c, stamp |-> s,
         coverage |-> [tf \in Timeframes |-> Coverage(tf, c)]] \in SyncedRows
    BY <1>2, <1>3 DEF SyncedRows
  <1>5. Dated(synced) /\ \A i \in DOMAIN synced : synced[i] \in SyncedRows
    BY DEF Dates, ReadinessTypes, ReportsTyped
  <1>6. \A i \in DOMAIN synced' : synced'[i] \in SyncedRows
    BY <1>1, <1>4, <1>5, AppendTyped
  <1>7. UNCHANGED <<now, ingested, disputes, attempts, outcomes, checkpoints, quality, reader>>
    BY DEF Synchronize, acquisitionTables
  <1> QED
    BY <1>6, <1>7 DEF ReadinessTypes, RowsTyped, ReportsTyped

\* The generation reads one timeframe after the other.
LEMMA StartTyped ==
    ASSUME NEW c \in Cutoffs, StartQuality(c) PROVE Reading(reader')
  <1>1. reader' = [step |-> "conflicts", as_of |-> c, conflicts |-> << >>, coverage |-> << >>]
    BY DEF StartQuality
  <1>2. c \in Slots
    BY ReadinessBounds DEF Slots
  <1>3. DOMAIN << >> = {}
    OBVIOUS
  <1>4. Partial(<< >>, Nat) /\ Partial(<< >>, SUBSET Slots)
    BY <1>3 DEF Partial
  <1>5. ReaderAt("conflicts", DOMAIN << >>, DOMAIN << >>)
    BY <1>3, ReadinessBounds DEF ReaderAt
  <1> QED
    BY <1>1, <1>2, <1>4, <1>5 DEF Reading

\* What a generation at a step holds.
LEMMA ReaderHolds ==
    ASSUME ReadinessTypes, NEW at, reader.step = at, at # "off"
    PROVE  \E as_of, conflicts, coverage :
             /\ reader = [step |-> at, as_of |-> as_of, conflicts |-> conflicts,
                          coverage |-> coverage]
             /\ as_of \in Slots /\ Partial(conflicts, Nat) /\ Partial(coverage, SUBSET Slots)
             /\ ReaderAt(at, DOMAIN conflicts, DOMAIN coverage)
  <1>1. Reading(reader)
    BY DEF ReadinessTypes, Off
  <1>2. PICK step, as_of, conflicts, coverage :
          /\ reader = [step |-> step, as_of |-> as_of, conflicts |-> conflicts,
                       coverage |-> coverage]
          /\ as_of \in Slots /\ Partial(conflicts, Nat) /\ Partial(coverage, SUBSET Slots)
          /\ ReaderAt(step, DOMAIN conflicts, DOMAIN coverage)
    BY <1>1 DEF Reading
  <1>3. step = at
    BY <1>2
  <1> QED
    BY <1>2, <1>3

LEMMA CountTyped == ASSUME ReadinessTypes, CountConflicts PROVE Reading(reader')
  <1> DEFINE tf == CHOOSE f \in Timeframes : f \notin DOMAIN reader.conflicts
             count == Cardinality(OpenConflicts(tf, reader.as_of))
             counted == With(reader.conflicts, tf, count)
  <1>1. reader.step = "conflicts"
        /\ reader' = [reader EXCEPT !.step = "coverage", !.conflicts = counted]
    BY DEF CountConflicts
  <1>2. PICK as_of, conflicts, coverage :
          /\ reader = [step |-> "conflicts", as_of |-> as_of, conflicts |-> conflicts,
                       coverage |-> coverage]
          /\ as_of \in Slots /\ Partial(conflicts, Nat) /\ Partial(coverage, SUBSET Slots)
          /\ ReaderAt("conflicts", DOMAIN conflicts, DOMAIN coverage)
    BY <1>1, ReaderHolds
  <1>3. DOMAIN conflicts = DOMAIN coverage /\ DOMAIN conflicts # Timeframes
        /\ DOMAIN conflicts \subseteq Timeframes /\ reader.conflicts = conflicts
    BY <1>2 DEF ReaderAt, Partial
  <1>4. tf \in Timeframes /\ tf \notin DOMAIN conflicts
    BY <1>3
  <1>5. count \in Nat
    BY ReadTyped
  <1> HIDE DEF tf, count
  <1>6. Partial(counted, Nat) /\ DOMAIN counted = DOMAIN conflicts \cup {tf}
    <2>1. Partial(reader.conflicts, Nat)
      BY <1>2, <1>3
    <2>2. Partial(With(reader.conflicts, tf, count), Nat)
          /\ DOMAIN With(reader.conflicts, tf, count) = DOMAIN reader.conflicts \cup {tf}
      BY <1>4, <1>5, <2>1, WithTyped
    <2> QED
      BY <1>3, <2>2
  <1> HIDE DEF counted
  <1>7. reader' = [step |-> "coverage", as_of |-> as_of, conflicts |-> counted,
                   coverage |-> coverage]
    BY <1>1, <1>2
  <1>8. ReaderAt("coverage", DOMAIN counted, DOMAIN coverage)
    BY <1>3, <1>4, <1>6 DEF ReaderAt
  <1> QED
    BY <1>2, <1>6, <1>7, <1>8 DEF Reading

LEMMA LoadCoveragesTyped == ASSUME ReadinessTypes, LoadCoverages PROVE Reading(reader')
  <1>1. reader.step = "coverage"
    BY DEF LoadCoverages
  <1>2. PICK as_of, conflicts, coverage :
          /\ reader = [step |-> "coverage", as_of |-> as_of, conflicts |-> conflicts,
                       coverage |-> coverage]
          /\ as_of \in Slots /\ Partial(conflicts, Nat) /\ Partial(coverage, SUBSET Slots)
          /\ ReaderAt("coverage", DOMAIN conflicts, DOMAIN coverage)
    BY <1>1, ReaderHolds
  <1>3. reader.conflicts = conflicts /\ reader.coverage = coverage
    BY <1>2
  <1>4. PICK tf \in DOMAIN conflicts \ DOMAIN coverage :
          reader' = [reader EXCEPT
            !.step = IF DOMAIN conflicts = Timeframes THEN "persist" ELSE "conflicts",
            !.coverage = With(reader.coverage, tf, Coverage(tf, reader.as_of))]
    BY <1>3 DEF LoadCoverages
  <1> DEFINE step == IF DOMAIN conflicts = Timeframes THEN "persist" ELSE "conflicts"
             loaded == Coverage(tf, reader.as_of)
             covered == With(coverage, tf, loaded)
  <1>5. tf \in Timeframes /\ loaded \in SUBSET Slots
    BY ReadTyped, <1>2, <1>4 DEF Partial
  <1> HIDE DEF loaded
  <1>6. Partial(covered, SUBSET Slots) /\ DOMAIN covered = DOMAIN coverage \cup {tf}
    BY <1>2, <1>5, WithTyped
  <1>7. reader' = [reader EXCEPT !.step = step, !.coverage = covered]
    BY <1>3, <1>4 DEF loaded
  <1>8. DOMAIN covered = DOMAIN conflicts
    BY <1>2, <1>4, <1>6 DEF ReaderAt
  <1>9. ReaderAt(step, DOMAIN conflicts, DOMAIN covered)
    BY <1>8 DEF ReaderAt
  <1> HIDE DEF covered, step
  <1>10. reader' = [step |-> step, as_of |-> as_of, conflicts |-> conflicts,
                    coverage |-> covered]
    BY <1>2, <1>7
  <1> QED
    BY <1>2, <1>6, <1>9, <1>10 DEF Reading

LEMMA PersistQualityTyped ==
    ASSUME ReadinessTypes, Dates, PersistQuality PROVE ReadinessTypes'
  <1>1. PICK as_of, conflicts, coverage :
          /\ reader = [step |-> "persist", as_of |-> as_of, conflicts |-> conflicts,
                       coverage |-> coverage]
          /\ as_of \in Slots /\ Partial(conflicts, Nat) /\ Partial(coverage, SUBSET Slots)
          /\ ReaderAt("persist", DOMAIN conflicts, DOMAIN coverage)
    BY ReaderHolds DEF PersistQuality
  <1>2. DOMAIN conflicts = Timeframes /\ DOMAIN coverage = Timeframes
    BY <1>1 DEF ReaderAt
  <1>3. conflicts \in [Timeframes -> Nat]
    BY <1>1, <1>2, ReadinessBounds DEF Partial
  <1>4. coverage \in [Timeframes -> SUBSET Slots]
    BY <1>1, <1>2, ReadinessBounds DEF Partial
  <1>5. PICK s \in Stamps :
          \/ quality' = quality
          \/ quality' = Append(quality, [as_of |-> as_of, stamp |-> s,
                                         conflicts |-> conflicts, coverage |-> coverage])
    BY <1>1 DEF PersistQuality
  <1>6. [as_of |-> as_of, stamp |-> s, conflicts |-> conflicts, coverage |-> coverage]
          \in QualityRows
    BY <1>1, <1>3, <1>4, StampsAreSlots DEF QualityRows, ReadinessTypes
  <1>7. Dated(quality) /\ \A i \in DOMAIN quality : quality[i] \in QualityRows
    BY DEF Dates, ReadinessTypes, ReportsTyped
  <1>8. \A i \in DOMAIN quality' : quality'[i] \in QualityRows
    BY <1>5, <1>6, <1>7, AppendTyped
  <1>9. UNCHANGED <<now, ingested, disputes, attempts, outcomes, checkpoints, synced>>
        /\ reader' = Off
    BY DEF PersistQuality, acquisitionTables
  <1> QED
    BY <1>8, <1>9 DEF ReadinessTypes, RowsTyped, ReportsTyped

LEMMA ReadinessTypesNext ==
    ReadinessTypes /\ Dates /\ [ReadinessNext]_readinessVars => ReadinessTypes'
  <1> SUFFICES ASSUME ReadinessTypes, Dates, [ReadinessNext]_readinessVars
               PROVE  ReadinessTypes'
    OBVIOUS
  <1>1. ASSUME UNCHANGED <<now, ingested, disputes, attempts, outcomes, checkpoints, synced, quality>>,
               reader' = reader \/ reader' = Off \/ Reading(reader')
        PROVE  ReadinessTypes'
    BY <1>1 DEF ReadinessTypes, RowsTyped, ReportsTyped
  <1>2. CASE UNCHANGED readinessVars
    BY <1>1, <1>2 DEF readinessVars
  <1>3. CASE PassTime
    <2>1. now' \in 1 .. MaxNow
      BY <1>3, ReadinessBounds DEF PassTime, ReadinessTypes
    <2> QED
      BY <1>3, <2>1 DEF PassTime, acquisitionTables, ReadinessTypes, RowsTyped, ReportsTyped
  <1>4. CASE (\E c \in Cutoffs : StartQuality(c)) \/ CountConflicts \/ LoadCoverages
    <2>1. Reading(reader')
      BY <1>4, StartTyped, CountTyped, LoadCoveragesTyped
    <2>2. UNCHANGED <<now, ingested, disputes, attempts, outcomes, checkpoints, synced, quality>>
      BY <1>4 DEF StartQuality, CountConflicts, LoadCoverages, acquisitionTables
    <2> QED
      BY <1>1, <2>1, <2>2
  <1>5. CASE (\E c \in Cutoffs : Inspect(c)) \/ InspectOutcome \/ InspectCheckpoint
             \/ InspectConflicts \/ InspectSynced \/ ReportReadiness \/ StopReading
    <2>1. UNCHANGED <<now, ingested, disputes, attempts, outcomes, checkpoints, synced, quality>>
      BY <1>5 DEF Inspect, InspectOutcome, InspectCheckpoint, InspectConflicts, InspectSynced,
                  ReportReadiness, StopReading, acquisitionTables
    <2>2. reader' = reader \/ reader' = Off
      BY <1>5 DEF Inspect, InspectOutcome, InspectCheckpoint, InspectConflicts, InspectSynced,
                  ReportReadiness, StopReading
    <2> QED
      BY <1>1, <2>1, <2>2
  <1> QED
    BY <1>2, <1>3, <1>4, <1>5, IngestTyped, DisputeTyped, AcquisitionTyped, SynchronizeTyped,
       PersistQualityTyped DEF ReadinessNext

\* Every row of the historical evidence, whatever commits between the
\* statements of a session, names a timeframe, times within the bound and, in
\* the reports, a count and a coverage of every timeframe.
THEOREM ReadinessTypeCorrect == ReadinessSpec => []ReadinessTypeOK
  <1>1. ReadinessInit => ReadinessInv /\ ReadinessTypes
    <2>1. ReadinessInit => ReadinessInv
      BY DEF ReadinessInit, ReadinessInv, Dates, Dated, CheckpointsConclude, InspectorStands,
             ReportsStand
    <2>2. ReadinessInit => ReadinessTypes
      BY ReadinessBounds, FS_EmptySet
         DEF ReadinessInit, ReadinessTypes, RowsTyped, ReportsTyped
    <2> QED
      BY <2>1, <2>2
  <1>2. ReadinessInv /\ ReadinessTypes /\ [ReadinessNext]_readinessVars
          => (ReadinessInv /\ ReadinessTypes)'
    BY ReadinessNextKeeps, ReadinessTypesNext DEF ReadinessInv
  <1>3. ReadinessTypes => ReadinessTypeOK
    BY ReadinessBounds DEF ReadinessTypes, RowsTyped, ReportsTyped, SyncedRows, QualityRows,
                           ReadinessTypeOK, Slots
  <1> QED
    BY <1>1, <1>2, <1>3, PTL DEF ReadinessSpec

-----------------------------------------------------------------------------
(* The platform.                                                              *)

\* A step of one component leaves the variables of the others as they are.
LEMMA PlatformSteps ==
    [Next]_platformVars =>
        /\ [DailyNext]_dailyVars /\ [BackfillNext]_backfillVars
        /\ [IntradayNext]_intradayVars /\ [PredictionNext]_predictionVars
        /\ [ReadinessNext]_readinessVars
  <1> SUFFICES ASSUME [Next]_platformVars
               PROVE  /\ [DailyNext]_dailyVars /\ [BackfillNext]_backfillVars
                      /\ [IntradayNext]_intradayVars /\ [PredictionNext]_predictionVars
                      /\ [ReadinessNext]_readinessVars
    OBVIOUS
  <1>1. CASE UNCHANGED platformVars
    BY <1>1 DEF platformVars
  <1>2. CASE Daily
    BY <1>2 DEF Daily
  <1>3. CASE Backfill
    BY <1>3 DEF Backfill
  <1>4. CASE Intraday
    BY <1>4 DEF Intraday
  <1>5. CASE Prediction
    BY <1>5 DEF Prediction
  <1>6. CASE Readiness
    BY <1>6 DEF Readiness
  <1> QED
    BY <1>1, <1>2, <1>3, <1>4, <1>5, <1>6 DEF Next

\* Every behaviour of the platform is one of each component: the runs that
\* exercise a component beside the others check that component.
THEOREM PlatformComposes ==
    Spec => DailySpec /\ BackfillSpec /\ IntradaySpec /\ PredictionSpec /\ ReadinessSpec
  <1>1. Init => DailyInit /\ BackfillInit /\ IntradayInit /\ PredictionInit /\ ReadinessInit
    BY DEF Init
  <1> QED
    BY <1>1, PlatformSteps, PTL
       DEF Spec, DailySpec, BackfillSpec, IntradaySpec, PredictionSpec, ReadinessSpec

\* Whatever a component of the platform does, the rows of all tables have the
\* types, and the unique indexes the uniqueness, that the components give them.
THEOREM PlatformTypeCorrect == Spec => []TypeOK
  <1>1. DailyTypeOK /\ BackfillTypeOK /\ IntradayTypeOK /\ PredictionTypeOK /\ ReadinessTypeOK
          => TypeOK
    BY DEF TypeOK
  <1> QED
    BY <1>1, PlatformComposes, DailyTypeCorrect, BackfillTypeCorrect, IntradayTypeCorrect,
       PredictionTypeCorrect, ReadinessTypeCorrect, PTL

\* What the components promise on their own, the platform promises with all of
\* them side by side.
THEOREM PlatformKeepsPromises ==
    Spec => [](/\ ActiveRunsAreComplete /\ DatasetMatchesBatch /\ NoLookAhead
               /\ PassedBackfillIsFaithful
               /\ MembersMatchTheirSources /\ EachValueInsertedOnce /\ LineageExplainsValues
               /\ AnswersAreAudited /\ OneArtifactServes /\ SettledReportsStand)
  <1> QED
    BY PlatformComposes, ActiveRunsAreAlwaysComplete, DatasetsAlwaysMatch, NoDatasetLooksAhead,
       PassedBackfillsAreFaithful, MembersAlwaysMatch, EachValueIsInsertedOnce,
       LineageAlwaysExplains, AnswersAreAlwaysAudited, OneArtifactAlwaysServes,
       SettledReportsAlwaysStand, PTL
=============================================================================
