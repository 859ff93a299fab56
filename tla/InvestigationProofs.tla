-------------------------- MODULE InvestigationProofs --------------------------
(***************************************************************************)
(* Proofs about Investigation, for any number of researchers, analyses and *)
(* claims.                                                                 *)
(***************************************************************************)
EXTENDS Investigation, SequenceTheorems, WellFoundedInduction, TLAPS

AnalysisRows == [investigation : Investigations, version : Versions]
AnswerRows == [investigation : Investigations, version : Versions, analysis : Nat]
ClaimRows == [investigation : Investigations, analysis : Nat, role : Roles,
              evidence : SUBSET Nat, memory : {"proposed", "active"}]
Studies ==
  {NoStudy}
  \cup [op : {"status", "identity", "write"}, request : Requests,
        key : AnalysisKeys \cup {NoAnalysisKey}]
  \cup [op : {"complete"}, investigation : Investigations]

InvestigationType ==
  /\ analyses \in Seq(AnalysisRows)
  /\ claims \in Seq(ClaimRows)
  /\ answers \subseteq AnswerRows
  /\ study \in [Researchers -> Studies]

\* UNIQUE(investigation_id, identity_key).
OneAnalysisPerVersion ==
  \A a, b \in AnalysisNumbers : analyses[a] = analyses[b] => a = b

\* An answer, given or stored under a key, is an analysis of what was asked.
AnswerIsAnalysis(row, investigationId, version) ==
  /\ row.analysis \in AnalysisNumbers
  /\ analyses[row.analysis] = [investigation |-> investigationId, version |-> version]

StoredAnswers ==
  \A row \in akeys : AnswerIsAnalysis(row, row.request.investigation, row.request.version)

GivenAnswers == \A s \in answers : AnswerIsAnalysis(s, s.investigation, s.version)

InvestigationInv ==
  /\ InvestigationType /\ OneAnalysisPerVersion /\ StoredAnswers /\ GivenAnswers
  /\ ClaimsCiteEarlier

-----------------------------------------------------------------------------
LEMMA StudyFields ==
  ASSUME InvestigationType, NEW p \in Researchers
  PROVE  /\ study[p].op \in {"status", "identity", "write"} =>
              /\ study[p] \in [op : {"status", "identity", "write"}, request : Requests,
                               key : AnalysisKeys \cup {NoAnalysisKey}]
              /\ study[p].request \in Requests
         /\ study[p].op = "complete" => study[p].investigation \in Investigations
<1>1. study[p] \in Studies
  BY DEF InvestigationType
<1> QED BY <1>1 DEF Studies, NoStudy

LEMMA RequestFields ==
  ASSUME NEW request \in Requests
  PROVE  /\ request.investigation \in Investigations /\ request.version \in Versions
         /\ request.claims \in Seq(Draft)
BY InvestigationAssumption

LEMMA StudyType ==
  ASSUME InvestigationType, NEW p \in Researchers, NEW s \in Studies, Step(p, s)
  PROVE  study' \in [Researchers -> Studies]
BY DEF InvestigationType, Step

\* A step of one study that adds an answer, if any, which is an analysis.
LEMMA AnswersKept ==
  ASSUME InvestigationInv, study' \in [Researchers -> Studies],
         UNCHANGED <<analyses, claims, akeys>>,
         \/ UNCHANGED answers
         \/ \E row \in AnswerRows : /\ AnswerIsAnalysis(row, row.investigation, row.version)
                                    /\ answers' = answers \cup {row}
  PROVE  InvestigationInv'
<1>1. InvestigationType'
  BY DEF InvestigationInv, InvestigationType
<1>2. OneAnalysisPerVersion' /\ StoredAnswers'
  BY DEF InvestigationInv, OneAnalysisPerVersion, StoredAnswers, AnswerIsAnalysis, AnalysisNumbers
<1>3. GivenAnswers'
  BY DEF InvestigationInv, GivenAnswers, AnswerIsAnalysis, AnalysisNumbers
<1>4. ClaimsCiteEarlier'
  BY DEF InvestigationInv, ClaimsCiteEarlier, ClaimNumbers
<1> QED BY <1>1, <1>2, <1>3, <1>4 DEF InvestigationInv

\* The row that answers a request.
LEMMA AnswerRow ==
  ASSUME InvestigationInv, NEW request \in Requests, NEW a \in AnalysisNumbers,
         analyses[a] = [investigation |-> request.investigation, version |-> request.version]
  PROVE  LET row == [investigation |-> request.investigation, version |-> request.version,
                     analysis |-> a]
         IN  row \in AnswerRows /\ AnswerIsAnalysis(row, row.investigation, row.version)
<1>1. a \in Nat
  BY DEF AnalysisNumbers, InvestigationInv, InvestigationType
<1> QED BY <1>1, RequestFields DEF AnswerRows, AnswerIsAnalysis

LEMMA InvestigationStart == InvestigationInit => InvestigationInv
<1> SUFFICES ASSUME InvestigationInit PROVE InvestigationInv
  OBVIOUS
<1>1. InvestigationType
  BY DEF InvestigationInit, InvestigationType, Studies
<1>2. OneAnalysisPerVersion /\ StoredAnswers /\ GivenAnswers /\ ClaimsCiteEarlier
  BY DEF InvestigationInit, OneAnalysisPerVersion, StoredAnswers, GivenAnswers,
         ClaimsCiteEarlier, AnalysisNumbers, ClaimNumbers
<1> QED BY <1>1, <1>2 DEF InvestigationInv

LEMMA AnalysisLookupKeeps ==
  ASSUME InvestigationInv, NEW p \in Researchers, NEW request \in Requests,
         NEW key \in AnalysisKeys \cup {NoAnalysisKey}, AnalysisLookup(p, request, key)
  PROVE  InvestigationInv'
<1>1. UNCHANGED <<analyses, claims, akeys>>
  BY DEF AnalysisLookup
<1>2. CASE {row \in akeys : row.key = key} = {}
  <2>1. [op |-> "status", request |-> request, key |-> key] \in Studies
    BY DEF Studies
  <2>2. Step(p, [op |-> "status", request |-> request, key |-> key]) /\ UNCHANGED answers
    BY <1>2 DEF AnalysisLookup
  <2> QED BY <1>1, <2>1, <2>2, StudyType, AnswersKept DEF InvestigationInv
<1>3. CASE {row \in akeys : row.key = key} # {}
  <2>1. PICK row \in akeys : row.request = request /\ AnswerOf(p, request, row.analysis)
    BY <1>3 DEF AnalysisLookup
  <2>2. /\ row.analysis \in AnalysisNumbers
        /\ analyses[row.analysis] = [investigation |-> request.investigation,
                                     version |-> request.version]
    BY <2>1 DEF InvestigationInv, StoredAnswers, AnswerIsAnalysis
  <2>3. study' \in [Researchers -> Studies]
    <3>1. NoStudy \in Studies
      BY DEF Studies
    <3> QED BY <2>1, <3>1, StudyType DEF AnswerOf, InvestigationInv
  <2> DEFINE given == [investigation |-> request.investigation, version |-> request.version,
                       analysis |-> row.analysis]
  <2>4. given \in AnswerRows /\ AnswerIsAnalysis(given, given.investigation, given.version)
    BY <2>2, AnswerRow
  <2>5. answers' = answers \cup {given}
    BY <2>1 DEF AnswerOf
  <2> HIDE DEF given
  <2> QED BY <1>1, <2>3, <2>4, <2>5, AnswersKept
<1> QED BY <1>2, <1>3

LEMMA AnalysisReadStatusKeeps ==
  ASSUME InvestigationInv, NEW p \in Researchers, AnalysisReadStatus(p)
  PROVE  InvestigationInv'
<1>1. [study[p] EXCEPT !.op = "identity"] \in Studies
  BY StudyFields DEF AnalysisReadStatus, InvestigationInv, Studies
<1> QED BY <1>1, StudyType, AnswersKept DEF AnalysisReadStatus, InvestigationInv

LEMMA AnalysisReadIdentityKeeps ==
  ASSUME InvestigationInv, NEW p \in Researchers, AnalysisReadIdentity(p)
  PROVE  InvestigationInv'
<1> DEFINE request == study[p].request
<1>1. /\ UNCHANGED <<analyses, claims, akeys>> /\ request \in Requests
      /\ study[p] \in [op : {"status", "identity", "write"}, request : Requests,
                       key : AnalysisKeys \cup {NoAnalysisKey}]
  BY StudyFields DEF AnalysisReadIdentity, InvestigationInv
<1>2. CASE SameVersion(request) = {}
  <2>1. [study[p] EXCEPT !.op = "write"] \in Studies
    BY <1>1 DEF Studies
  <2>2. Step(p, [study[p] EXCEPT !.op = "write"]) /\ UNCHANGED answers
    BY <1>2 DEF AnalysisReadIdentity
  <2> QED BY <1>1, <2>1, <2>2, StudyType, AnswersKept DEF InvestigationInv
<1>3. CASE SameVersion(request) # {}
  <2>1. PICK a \in SameVersion(request) : AnswerOf(p, request, a)
    BY <1>3 DEF AnalysisReadIdentity
  <2>2. /\ a \in AnalysisNumbers
        /\ analyses[a] = [investigation |-> request.investigation, version |-> request.version]
    <3>1. /\ a \in AnalysisNumbers /\ analyses[a].investigation = request.investigation
          /\ analyses[a].version = request.version
      BY <2>1 DEF SameVersion
    <3>2. analyses[a] \in AnalysisRows
      BY <3>1 DEF InvestigationInv, InvestigationType, AnalysisNumbers
    <3> QED BY <3>1, <3>2 DEF AnalysisRows
  <2>3. study' \in [Researchers -> Studies]
    <3>1. NoStudy \in Studies
      BY DEF Studies
    <3> QED BY <2>1, <3>1, StudyType DEF AnswerOf, InvestigationInv
  <2> DEFINE given == [investigation |-> request.investigation, version |-> request.version,
                       analysis |-> a]
  <2>4. given \in AnswerRows /\ AnswerIsAnalysis(given, given.investigation, given.version)
    BY <1>1, <2>2, AnswerRow
  <2>5. answers' = answers \cup {given}
    BY <2>1 DEF AnswerOf
  <2> HIDE DEF given
  <2> QED BY <1>1, <2>3, <2>4, <2>5, AnswersKept
<1> QED BY <1>2, <1>3

\* The claims of an analysis are appended to those there are.
LEMMA ClaimsAppended ==
  ASSUME InvestigationInv, NEW request \in Requests, NEW a \in Nat,
         \A n \in 1..Len(request.claims) : Admissible(request, n),
         claims' = claims \o [n \in 1..Len(request.claims) |-> Recorded(request, n, a)]
  PROVE  claims' \in Seq(ClaimRows) /\ ClaimsCiteEarlier'
<1> DEFINE k == Len(claims)
           m == Len(request.claims)
           new == [n \in 1..m |-> Recorded(request, n, a)]
<1>1. k \in Nat /\ m \in Nat /\ claims \in Seq(ClaimRows)
  BY RequestFields DEF InvestigationInv, InvestigationType
<1>2. ASSUME NEW n \in 1..m
      PROVE  /\ request.claims[n] \in Draft
             /\ request.claims[n].refs \subseteq 1..(n - 1)
             /\ request.claims[n].prior \subseteq
                  {c \in ClaimNumbers : claims[c].investigation = request.investigation}
             /\ request.claims[n].role \in Consequences =>
                  request.claims[n].refs \cup request.claims[n].prior # {}
  BY <1>1, RequestFields DEF Admissible
<1>3. ASSUME NEW n \in 1..m
      PROVE  /\ Recorded(request, n, a) \in ClaimRows
             /\ Recorded(request, n, a).investigation = request.investigation
             /\ Recorded(request, n, a).role = request.claims[n].role
             /\ Recorded(request, n, a).evidence =
                  {k + r : r \in request.claims[n].refs} \cup request.claims[n].prior
  <2>1. /\ request.claims[n].role \in Roles /\ request.claims[n].status \in {"proposed", "active"}
        /\ request.claims[n].refs \subseteq Nat /\ request.claims[n].prior \subseteq Nat
    BY <1>2 DEF Draft
  <2>2. {k + r : r \in request.claims[n].refs} \cup request.claims[n].prior \in SUBSET Nat
    BY <1>1, <2>1
  <2>3. request.investigation \in Investigations
    BY RequestFields
  <2> QED BY <2>1, <2>2, <2>3 DEF Recorded, ClaimRows
<1>4. new \in Seq(ClaimRows) /\ Len(new) = m
  BY <1>1, <1>3
<1>5. /\ claims' \in Seq(ClaimRows) /\ Len(claims') = k + m
      /\ \A c \in 1..k : claims'[c] = claims[c]
      /\ \A n \in 1..m : claims'[k + n] = Recorded(request, n, a)
  <2>1. claims' = claims \o new
    OBVIOUS
  <2>2. \A n \in 1..m : new[n] = Recorded(request, n, a)
    OBVIOUS
  <2> HIDE DEF new, k, m
  <2>3. claims' \in Seq(ClaimRows)
    <3>1. claims \o new \in Seq(ClaimRows)
      BY <1>1, <1>4, ConcatProperties
    <3> QED BY <3>1, <2>1
  <2>4. /\ Len(claims') = Len(claims) + Len(new)
        /\ \A i \in 1..(Len(claims) + Len(new)) :
             claims'[i] = IF i <= Len(claims) THEN claims[i] ELSE new[i - Len(claims)]
    BY <1>1, <1>4, <2>1, ConcatProperties
  <2>5. k = Len(claims)
    BY DEF k
  <2>6. Len(claims') = k + m
    BY <2>4, <2>5, <1>4
  <2>7. ASSUME NEW c \in 1..k PROVE claims'[c] = claims[c]
    <3>1. c \in 1..(Len(claims) + Len(new)) /\ c <= Len(claims)
      BY <2>5, <1>1, <1>4
    <3> QED BY <3>1, <2>4
  <2>8. ASSUME NEW n \in 1..m PROVE claims'[k + n] = Recorded(request, n, a)
    <3>1. /\ k + n \in 1..(Len(claims) + Len(new))
          /\ ~(k + n <= Len(claims)) /\ (k + n) - Len(claims) = n
      BY <2>5, <1>1, <1>4
    <3>2. claims'[k + n] = new[n]
      BY <3>1, <2>4
    <3> QED BY <3>2, <2>2
  <2> QED BY <2>3, <2>6, <2>7, <2>8
<1>6. ASSUME NEW c \in 1..k
      PROVE  /\ claims'[c].role \in Consequences => claims'[c].evidence # {}
             /\ \A e \in claims'[c].evidence :
                  e \in 1..(c - 1) /\ claims'[e].investigation = claims'[c].investigation
  <2>1. c \in ClaimNumbers /\ claims'[c] = claims[c]
    BY <1>5 DEF ClaimNumbers
  <2>2. ASSUME NEW e \in claims[c].evidence PROVE e \in 1..k /\ e \in 1..(c - 1)
    <3>1. e \in 1..(c - 1)
      BY <2>1 DEF InvestigationInv, ClaimsCiteEarlier
    <3> QED BY <3>1, <1>1
  <2> QED BY <2>1, <2>2, <1>5 DEF InvestigationInv, ClaimsCiteEarlier
<1>7. ASSUME NEW n \in 1..m
      PROVE  /\ claims'[k + n].role \in Consequences => claims'[k + n].evidence # {}
             /\ \A e \in claims'[k + n].evidence :
                  /\ e \in 1..(k + n - 1)
                  /\ claims'[e].investigation = claims'[k + n].investigation
  <2>1. /\ claims'[k + n].investigation = request.investigation
        /\ claims'[k + n].role = request.claims[n].role
        /\ claims'[k + n].evidence =
             {k + r : r \in request.claims[n].refs} \cup request.claims[n].prior
    BY <1>3, <1>5
  <2>2. ASSUME NEW r \in request.claims[n].refs
        PROVE  k + r \in 1..(k + n - 1) /\ claims'[k + r].investigation = request.investigation
    <3>1. r \in 1..m /\ r \in 1..(n - 1)
      BY <1>1, <1>2
    <3>2. claims'[k + r] = Recorded(request, r, a)
      BY <3>1, <1>5
    <3> QED BY <3>1, <3>2, <1>1, <1>3
  <2>3. ASSUME NEW e \in request.claims[n].prior
        PROVE  e \in 1..(k + n - 1) /\ claims'[e].investigation = request.investigation
    <3>1. e \in 1..k /\ claims[e].investigation = request.investigation
      BY <1>2 DEF ClaimNumbers
    <3> QED BY <3>1, <1>1, <1>5
  <2>4. request.claims[n].role \in Consequences => claims'[k + n].evidence # {}
    <3>1. SUFFICES ASSUME request.claims[n].role \in Consequences
                   PROVE  claims'[k + n].evidence # {}
      OBVIOUS
    <3>2. PICK e : e \in request.claims[n].refs \/ e \in request.claims[n].prior
      BY <1>2, <3>1
    <3>3. k + e \in claims'[k + n].evidence \/ e \in claims'[k + n].evidence
      <4> HIDE DEF k
      <4> QED BY <3>2, <2>1
    <3> QED BY <3>3
  <2> QED BY <2>1, <2>2, <2>3, <2>4
<1>8. ASSUME NEW c \in 1..Len(claims')
      PROVE  /\ claims'[c].role \in Consequences => claims'[c].evidence # {}
             /\ \A e \in claims'[c].evidence :
                  e \in 1..(c - 1) /\ claims'[e].investigation = claims'[c].investigation
  <2>1. CASE c \in 1..k
    BY <2>1, <1>6
  <2>2. CASE c \notin 1..k
    <3>1. c - k \in 1..m /\ c = k + (c - k)
      <4>1. c \in Nat /\ 1 <= c /\ c <= k + m
        BY <1>1, <1>5
      <4> HIDE DEF k, m
      <4> QED BY <4>1, <2>2, <1>1
    <3>2. PICK n \in 1..m : c = k + n
      BY <3>1
    <3>3. claims'[c].role \in Consequences => claims'[c].evidence # {}
      BY <3>2, <1>7
    <3>4. ASSUME NEW e \in claims'[c].evidence
          PROVE  e \in 1..(c - 1) /\ claims'[e].investigation = claims'[c].investigation
      <4>1. e \in claims'[k + n].evidence
        BY <3>2
      <4>2. e \in 1..(k + n - 1) /\ claims'[e].investigation = claims'[k + n].investigation
        BY <4>1, <1>7
      <4>3. c = k + n
        BY <3>2
      <4>4. claims'[e].investigation = claims'[c].investigation
        BY <4>2, <4>3, Zenon
      <4>5. k \in Nat /\ n \in Nat /\ c \in Nat
        BY <1>1, <1>5
      <4> HIDE DEF k, m
      <4> QED BY <4>2, <4>3, <4>4, <4>5
    <3> QED BY <3>3, <3>4
  <2> QED BY <2>1, <2>2
<1> QED BY <1>5, <1>8 DEF ClaimsCiteEarlier, ClaimNumbers

\* The unique identity lets one of two racing analyses in.
LEMMA AnalysisTxKeeps ==
  ASSUME InvestigationInv, NEW p \in Researchers, AnalysisTx(p)
  PROVE  InvestigationInv'
<1> DEFINE request == study[p].request
           a == Len(analyses) + 1
           entry == [investigation |-> request.investigation, version |-> request.version]
           given == [investigation |-> request.investigation, version |-> request.version,
                     analysis |-> a]
<1>1. request \in Requests
  BY StudyFields DEF AnalysisTx, InvestigationInv
<1>2. entry \in AnalysisRows /\ Len(analyses) \in Nat /\ analyses \in Seq(AnalysisRows)
  BY <1>1, RequestFields DEF AnalysisRows, InvestigationInv, InvestigationType
<1>3. analyses' = Append(analyses, entry) /\ answers' = answers \cup {given}
  BY DEF AnalysisTx, AnswerOf
<1>4. /\ analyses' \in Seq(AnalysisRows) /\ Len(analyses') = a
      /\ \A b \in 1..Len(analyses) : analyses'[b] = analyses[b]
      /\ analyses'[a] = entry
  <2> HIDE DEF entry
  <2> QED BY <1>2, <1>3
<1>5. claims' \in Seq(ClaimRows) /\ ClaimsCiteEarlier'
  <2>1. /\ \A n \in 1..Len(request.claims) : Admissible(request, n)
        /\ claims' = claims \o [n \in 1..Len(request.claims) |-> Recorded(request, n, a)]
    BY DEF AnalysisTx
  <2>2. a \in Nat
    BY <1>2
  <2> HIDE DEF request, a
  <2> QED BY <1>1, <2>1, <2>2, ClaimsAppended
<1>6. study' \in [Researchers -> Studies]
  <2>1. NoStudy \in Studies
    BY DEF Studies
  <2> QED BY <2>1, StudyType DEF AnalysisTx, AnswerOf, InvestigationInv
<1>7. given \in AnswerRows
  BY <1>1, <1>2, RequestFields DEF AnswerRows
<1>8. InvestigationType'
  <2> HIDE DEF given
  <2> QED BY <1>3, <1>4, <1>5, <1>6, <1>7 DEF InvestigationInv, InvestigationType
<1>9. \A b \in 1..Len(analyses) : analyses[b] # entry
  <2>1. SameVersion(request) = {}
    BY DEF AnalysisTx, VersionFree
  <2> QED BY <2>1 DEF SameVersion, AnalysisNumbers
<1>10. OneAnalysisPerVersion'
  <2>1. ASSUME NEW b \in 1..Len(analyses'), NEW c \in 1..Len(analyses'),
               analyses'[b] = analyses'[c]
        PROVE  b = c
    <3>1. (b \in 1..Len(analyses) \/ b = a) /\ (c \in 1..Len(analyses) \/ c = a)
      BY <1>2, <1>4
    <3>2. CASE b \in 1..Len(analyses) /\ c \in 1..Len(analyses)
      BY <3>2, <2>1, <1>4 DEF InvestigationInv, OneAnalysisPerVersion, AnalysisNumbers
    <3> HIDE DEF entry, a
    <3> QED BY <3>1, <3>2, <2>1, <1>4, <1>9
  <2> QED BY <2>1 DEF OneAnalysisPerVersion, AnalysisNumbers
<1>11. ASSUME NEW row, NEW i, NEW v, AnswerIsAnalysis(row, i, v)
       PROVE  /\ row.analysis \in 1..Len(analyses')
              /\ analyses'[row.analysis] = [investigation |-> i, version |-> v]
  BY <1>2, <1>4, <1>11 DEF AnswerIsAnalysis, AnalysisNumbers
<1>12. StoredAnswers'
  <2>1. ASSUME NEW row \in akeys'
        PROVE  /\ row.analysis \in 1..Len(analyses')
               /\ analyses'[row.analysis] = [investigation |-> row.request.investigation,
                                             version |-> row.request.version]
    <3>1. CASE row \in akeys
      BY <3>1, <1>11 DEF InvestigationInv, StoredAnswers
    <3>2. CASE row \notin akeys
      <4>1. row = [key |-> study[p].key, request |-> request, analysis |-> a]
        BY <3>2 DEF AnalysisTx
      <4>2. row.request = request /\ row.analysis = a
        BY <4>1
      <4> QED BY <4>2, <1>2, <1>4
    <3> QED BY <3>1, <3>2
  <2> QED BY <2>1 DEF StoredAnswers, AnswerIsAnalysis, AnalysisNumbers
<1>13. GivenAnswers'
  <2>1. ASSUME NEW row \in answers'
        PROVE  /\ row.analysis \in 1..Len(analyses')
               /\ analyses'[row.analysis] = [investigation |-> row.investigation,
                                             version |-> row.version]
    <3>1. CASE row \in answers
      BY <3>1, <1>11 DEF InvestigationInv, GivenAnswers
    <3>2. CASE row \notin answers
      <4>1. row = given
        BY <3>2, <1>3
      <4> QED BY <4>1, <1>2, <1>4
    <3> QED BY <3>1, <3>2
  <2> QED BY <2>1 DEF GivenAnswers, AnswerIsAnalysis, AnalysisNumbers
<1> QED BY <1>5, <1>8, <1>10, <1>12, <1>13 DEF InvestigationInv

LEMMA OtherStepsKeep ==
  ASSUME InvestigationInv, UNCHANGED <<analyses, claims, akeys, answers>>,
         \/ UNCHANGED study
         \/ \E p \in Researchers, s \in Studies : Step(p, s)
  PROVE  InvestigationInv'
<1>1. study' \in [Researchers -> Studies]
  BY StudyType DEF InvestigationInv, InvestigationType
<1> QED BY <1>1, AnswersKept

LEMMA InvestigationStep == InvestigationInv /\ [InvestigationNext]_investigationVars
                             => InvestigationInv'
<1> SUFFICES ASSUME InvestigationInv, [InvestigationNext]_investigationVars
             PROVE  InvestigationInv'
  OBVIOUS
<1>1. ASSUME NEW i \in Investigations, CreateInvestigation(i) PROVE InvestigationInv'
  BY <1>1, OtherStepsKeep DEF CreateInvestigation
<1>2. ASSUME NEW p \in Researchers, NEW request \in Requests,
             NEW key \in AnalysisKeys \cup {NoAnalysisKey}, AnalysisLookup(p, request, key)
      PROVE  InvestigationInv'
  BY <1>2, AnalysisLookupKeeps
<1>3. ASSUME NEW p \in Researchers, AnalysisReadStatus(p) PROVE InvestigationInv'
  BY <1>3, AnalysisReadStatusKeeps
<1>4. ASSUME NEW p \in Researchers, AnalysisReadIdentity(p) PROVE InvestigationInv'
  BY <1>4, AnalysisReadIdentityKeeps
<1>5. ASSUME NEW p \in Researchers, AnalysisTx(p) PROVE InvestigationInv'
  BY <1>5, AnalysisTxKeeps
<1>6. ASSUME NEW p \in Researchers, NEW i \in Investigations, CompleteRead(p, i)
      PROVE  InvestigationInv'
  <2>1. [op |-> "complete", investigation |-> i] \in Studies
    BY DEF Studies
  <2> QED BY <1>6, <2>1, OtherStepsKeep DEF CompleteRead
<1>7. ASSUME NEW p \in Researchers, CompleteTx(p) \/ GiveUp(p) PROVE InvestigationInv'
  <2>1. NoStudy \in Studies
    BY DEF Studies
  <2> QED BY <1>7, <2>1, OtherStepsKeep DEF CompleteTx, GiveUp
<1>8. ASSUME NEW a \in AnalysisNumbers, NEW reason \in Reasons, Reinspect(a, reason)
      PROVE  InvestigationInv'
  BY <1>8, OtherStepsKeep DEF Reinspect
<1>9. CASE UNCHANGED investigationVars
  BY <1>9, OtherStepsKeep DEF investigationVars
<1> QED BY <1>1, <1>2, <1>3, <1>4, <1>5, <1>6, <1>7, <1>8, <1>9 DEF InvestigationNext

THEOREM InvestigationInvariant == InvestigationSpec => []InvestigationInv
BY InvestigationStart, InvestigationStep, PTL DEF InvestigationSpec

\* record_source_analysis answers every retry and every racing client with the
\* one analysis there is of the version it asked for.
THEOREM AnswersAlwaysAgree == InvestigationSpec => []AnswersAgree
<1>1. InvestigationInv => AnswersAgree
  <2> SUFFICES ASSUME InvestigationInv PROVE AnswersAgree
    OBVIOUS
  <2>1. ASSUME NEW s \in answers
        PROVE  /\ s.analysis \in AnalysisNumbers
               /\ analyses[s.analysis] = [investigation |-> s.investigation,
                                          version |-> s.version]
    BY DEF InvestigationInv, GivenAnswers, AnswerIsAnalysis
  <2>2. ASSUME NEW s \in answers, NEW t \in answers,
               s.investigation = t.investigation, s.version = t.version
        PROVE  s = t
    <3>1. s.analysis = t.analysis
      <4>1. analyses[s.analysis] = analyses[t.analysis]
        <5>1. analyses[s.analysis] = [investigation |-> s.investigation,
                                      version |-> s.version]
          BY <2>1
        <5>2. analyses[t.analysis] = [investigation |-> t.investigation,
                                      version |-> t.version]
          BY <2>1
        <5> QED BY <5>1, <5>2, <2>2
      <4>2. s.analysis \in AnalysisNumbers /\ t.analysis \in AnalysisNumbers
        BY <2>1
      <4> QED BY <4>1, <4>2 DEF InvestigationInv, OneAnalysisPerVersion
    <3>2. s \in AnswerRows /\ t \in AnswerRows
      BY DEF InvestigationInv, InvestigationType
    <3> QED BY <2>2, <3>1, <3>2 DEF AnswerRows
  <2> QED BY <2>1, <2>2 DEF AnswersAgree
<1> QED BY <1>1, InvestigationInvariant, PTL

\* A claim cites claims of its own investigation that were recorded before it,
\* and every consequence cites one: what ClaimsRestOnEvidence follows from.
THEOREM ClaimsAlwaysCiteEarlier == InvestigationSpec => []ClaimsCiteEarlier
<1>1. InvestigationInv => ClaimsCiteEarlier
  BY DEF InvestigationInv
<1> QED BY <1>1, InvestigationInvariant, PTL

-----------------------------------------------------------------------------
(* What claims come down to                                                *)

\* The least of some numbers.
LEMMA LeastNumber ==
  ASSUME NEW S \in SUBSET Nat, S # {}
  PROVE  \E n \in S : \A k \in S : n <= k
<1>1. PICK n \in S : \A k \in S : <<k, n>> \notin OpToRel(<, Nat)
  BY WFMin, NatLessThanWellFounded, Zenon
<1>2. \A k \in S : ~(k < n)
  BY <1>1, Zenon DEF OpToRel
<1> QED BY <1>2

\* The basis of a claim is closed, and the claims of its investigation too.
LEMMA BasisClosed ==
  ASSUME ClaimsCiteEarlier, claims \in Seq(ClaimRows), NEW c \in ClaimNumbers
  PROVE  c \in Basis(c) /\ Closed(Basis(c))
<1>1. c \in Basis(c)
  BY DEF Basis
<1>2. ASSUME NEW d \in Basis(c), claims[d].role # "evidence",
             NEW e \in claims[d].evidence
      PROVE  e \in Basis(c)
  <2>1. d \in ClaimNumbers /\ Len(claims) \in Nat
    BY DEF Basis
  <2>2. e \in ClaimNumbers
    <3>1. e \in 1..(d - 1)
      BY <2>1 DEF ClaimsCiteEarlier
    <3> QED BY <2>1, <3>1 DEF ClaimNumbers
  <2>3. ASSUME NEW cs \in SUBSET ClaimNumbers, c \in cs, Closed(cs)
        PROVE  e \in cs
    BY <1>2, <2>3 DEF Basis, Closed
  <2> QED BY <2>2, <2>3 DEF Basis
<1> QED BY <1>1, <1>2 DEF Closed

LEMMA OwnClaimsClosed ==
  ASSUME ClaimsCiteEarlier, claims \in Seq(ClaimRows), NEW c \in ClaimNumbers
  PROVE  Closed({d \in ClaimNumbers : claims[d].investigation = claims[c].investigation})
<1>1. ASSUME NEW d \in ClaimNumbers, NEW e \in claims[d].evidence
      PROVE  e \in ClaimNumbers /\ claims[e].investigation = claims[d].investigation
  <2>1. e \in 1..(d - 1) /\ claims[e].investigation = claims[d].investigation
    BY DEF ClaimsCiteEarlier
  <2>2. Len(claims) \in Nat
    OBVIOUS
  <2> QED BY <2>1, <2>2 DEF ClaimNumbers
<1> QED BY <1>1 DEF Closed

\* The first claim of the basis is evidence, since any other cites an earlier
\* one, which is in the basis as well.
LEMMA RestOnEvidence ==
  ASSUME ClaimsCiteEarlier, claims \in Seq(ClaimRows)
  PROVE  ClaimsRestOnEvidence
<1> SUFFICES ASSUME NEW c \in ClaimNumbers
             PROVE  /\ claims[c].evidence \subseteq 1..(c - 1)
                    /\ Grounds(c) # {}
                    /\ \A g \in Grounds(c) :
                         claims[g].investigation = claims[c].investigation
  BY DEF ClaimsRestOnEvidence
<1>1. claims[c].evidence \subseteq 1..(c - 1)
  BY DEF ClaimsCiteEarlier
<1>2. Grounds(c) # {}
  <2>1. Basis(c) \subseteq ClaimNumbers /\ ClaimNumbers \subseteq Nat
    BY DEF Basis, ClaimNumbers
  <2>2. PICK g \in Basis(c) : \A d \in Basis(c) : g <= d
    BY <2>1, BasisClosed, LeastNumber
  <2>3. claims[g].role = "evidence"
    <3>1. SUFFICES ASSUME claims[g].role # "evidence" PROVE FALSE
      OBVIOUS
    <3>2. claims[g].role \in Consequences
      <4>1. claims[g] \in ClaimRows
        BY <2>1 DEF ClaimNumbers
      <4>2. claims[g].role \in Roles
        BY <4>1 DEF ClaimRows
      <4> QED BY <4>2, <3>1 DEF Roles
    <3>3. PICK e \in claims[g].evidence : e \in 1..(g - 1)
      BY <2>1, <3>2 DEF ClaimsCiteEarlier
    <3>4. e \in Basis(c)
      BY <3>1, <3>3, BasisClosed DEF Closed
    <3> QED BY <2>1, <2>2, <3>3, <3>4
  <2> QED BY <2>3 DEF Grounds
<1>3. ASSUME NEW g \in Grounds(c)
      PROVE  claims[g].investigation = claims[c].investigation
  <2> DEFINE own == {d \in ClaimNumbers :
                       claims[d].investigation = claims[c].investigation}
  <2>1. own \in SUBSET ClaimNumbers /\ c \in own /\ Closed(own)
    BY OwnClaimsClosed
  <2>2. g \in own
    <3> HIDE DEF own
    <3> QED BY <2>1 DEF Grounds, Basis
  <2> QED BY <2>2
<1> QED BY <1>1, <1>2, <1>3

\* Every claim comes down to evidence of its own investigation, for any
\* number of researchers whose analyses interleave.
THEOREM ClaimsAlwaysRestOnEvidence == InvestigationSpec => []ClaimsRestOnEvidence
<1>1. InvestigationInv => ClaimsRestOnEvidence
  BY RestOnEvidence DEF InvestigationInv, InvestigationType
<1> QED BY <1>1, InvestigationInvariant, PTL
=============================================================================
