------------------------- MODULE GameWorkspaceProofs -------------------------
(***************************************************************************)
(* Proofs about GameWorkspace: type correctness; that a finished prepare   *)
(* leaves a workspace the next analyze accepts; that an analysis starts    *)
(* only on what prepare hashed; that its results are right unless a call   *)
(* was stopped or the source written to meanwhile.                         *)
(***************************************************************************)
EXTENDS GameWorkspace, TLAPS

\* What the local variables of a running call, and the files it has already
\* written, are known to be: TypeOK allows None where a later step needs a value.
StepsAreSupplied ==
    /\ pc \in PrepareSteps \cup AnalyzeSteps => work.source \in Sources
    /\ pc = "finish_survey" /\ Kind[work.source] # "directory" => work.content \in Contents
    /\ pc \in {"write_manifest", "write_files", "write_local"} => work.content \in Contents
    /\ pc \in AnalyzeSteps => work.key \in Keys
    /\ pc \in AnalyzeSteps \ {"remove"} => work.read \in Contents
    /\ pc \in {"finish_analysis", "write_rest", "mark_files", "write_state"} =>
           analysis \in Made
    /\ pc \in {"mark_files", "write_state"} => rest \in Keys
    /\ pc = "write_state" => files \in FileRecords

TypeInv == TypeOK /\ StepsAreSupplied

LEMMA NoWorkIsWork == NoWork \in Work
  BY BoundsAssumption DEF NoWork, Work, Stamps

LEMMA TypeInvInit == Init => TypeInv
  <1> SUFFICES ASSUME Init PROVE TypeInv
    OBVIOUS
  <1>0. source \in [Sources -> [content: Contents, stamp: Stamps]]
    BY BoundsAssumption DEF Init, Stamps
  <1>1. TypeOK
    BY <1>0, NoWorkIsWork DEF Init, TypeOK
  <1>2. StepsAreSupplied
    BY DEF Init, StepsAreSupplied, PrepareSteps, AnalyzeSteps
  <1>3. QED
    BY <1>1, <1>2 DEF TypeInv

LEMMA TypeInvStep == TypeInv /\ [Next]_vars => TypeInv'
  <1> SUFFICES ASSUME TypeInv, [Next]_vars PROVE TypeInv'
    OBVIOUS
  <1> USE DEF TypeInv, TypeOK, StepsAreSupplied, disk, history, PrepareSteps, AnalyzeSteps
  <1>1. ASSUME NEW s \in Sources, NEW c \in Contents, Edit(s, c) PROVE TypeInv'
    BY <1>1, BoundsAssumption DEF Edit, Stamps
  <1>2. ASSUME NEW s \in Sources, Prepare(s) PROVE TypeInv'
    BY <1>2, BoundsAssumption DEF Prepare, NoWork, Work, Stamps
  <1>3. CASE Refuse
    BY <1>3 DEF Refuse
  <1>4. ASSUME NEW config \in Configs, Reuse(config) PROVE TypeInv'
    BY <1>4 DEF Reuse, Reusable, Accepted, Key, Keys, Results, FileRecords
  <1>5. ASSUME NEW config \in Configs, Analyze(config) PROVE TypeInv'
    BY <1>5, BoundsAssumption DEF Analyze, Accepted, Key, Keys, NoWork, Work, Stamps,
       LocalRecords
  <1>6. CASE Survey
    BY <1>6 DEF Survey, Stat, Hash, Work
  <1>7. CASE FinishSurvey
    BY <1>7 DEF FinishSurvey, Stat, Hash, Work
  <1>8. CASE WriteManifest
    BY <1>8, SourcesAssumption DEF WriteManifest, Surveyed, Identities
  <1>9. CASE WriteFiles
    BY <1>9, SourcesAssumption DEF WriteFiles, Surveyed, Identities, FileRecords
  <1>10. CASE WriteLocal
    BY <1>10, SourcesAssumption, NoWorkIsWork DEF WriteLocal, Work, LocalRecords
  <1>11. CASE RemoveOutput
    BY <1>11 DEF RemoveOutput
  <1>12. CASE Generate
    BY <1>12 DEF Generate, Work
  <1>13. CASE WriteAnalysis
    BY <1>13, SourcesAssumption DEF WriteAnalysis, MadeOf, Made, Keys, Identities
  <1>14. CASE FinishAnalysis
    <2>1. analysis \in Made
      BY <1>14 DEF FinishAnalysis
    <2>2. [analysis EXCEPT !.whole = TRUE] \in Made
      BY <2>1 DEF Made
    <2>3. analysis' \in Made
      BY <1>14, <2>2 DEF FinishAnalysis
    <2>4. QED
      BY <1>14, <2>3 DEF FinishAnalysis
  <1>15. CASE WriteRest
    BY <1>15, SourcesAssumption DEF WriteRest, MadeOf, Keys, Identities
  <1>16. CASE MarkFiles
    BY <1>16 DEF MarkFiles, Keys, FileRecords
  <1>17. CASE WriteState
    BY <1>17, NoWorkIsWork DEF WriteState, Results, FileRecords
  <1>18. CASE Stop
    BY <1>18, NoWorkIsWork DEF Stop
  <1>19. CASE UNCHANGED vars
    BY <1>19 DEF vars
  <1>20. QED
    BY <1>1, <1>2, <1>3, <1>4, <1>5, <1>6, <1>7, <1>8, <1>9, <1>10, <1>11, <1>12,
       <1>13, <1>14, <1>15, <1>16, <1>17, <1>18, <1>19
    DEF Next, Call, Step

LEMMA TypeInvariant == Spec => []TypeInv
  BY TypeInvInit, TypeInvStep, PTL DEF Spec

\* Every variable keeps its type, through every write and every stop
\* (workspace.py).
THEOREM TypeCorrect == Spec => []TypeOK
  <1>1. TypeInv => TypeOK
    BY DEF TypeInv
  <1>2. QED
    BY <1>1, TypeInvariant, PTL
-----------------------------------------------------------------------------
(* A finished prepare is accepted *)

PrepareInv ==
    /\ prepared # None => pc = "idle" /\ Accepted /\ local.source = prepared
    /\ pc \in {"write_files", "write_local"} => manifest = Surveyed
    /\ pc = "write_local" => files # None /\ files.identity = Surveyed

LEMMA SurveyedIsIdentity ==
    TypeInv /\ pc \in {"write_manifest", "write_files", "write_local"} => Surveyed \in Identities
  BY SourcesAssumption
  DEF TypeInv, StepsAreSupplied, Surveyed, Identities, PrepareSteps

LEMMA PrepareInvStep == TypeInv /\ TypeInv' /\ PrepareInv /\ [Next]_vars => PrepareInv'
  <1> SUFFICES ASSUME TypeInv, TypeInv', PrepareInv, [Next]_vars PROVE PrepareInv'
    OBVIOUS
  <1> USE DEF TypeInv, TypeOK, PrepareInv, disk, history
  <1>1. ASSUME NEW s \in Sources, NEW c \in Contents, Edit(s, c) PROVE PrepareInv'
    <2>1. ASSUME prepared' # None PROVE pc' = "idle" /\ Accepted' /\ local'.source = prepared'
      <3>1. prepared # s /\ prepared' = prepared
        BY <1>1, <2>1 DEF Edit
      <3>2. source'[local.source] = source[local.source]
        BY <1>1, <2>1, <3>1 DEF Edit, Accepted
      <3>3. QED
        BY <1>1, <2>1, <3>1, <3>2 DEF Edit, Accepted
    <2>2. Surveyed' = Surveyed
      BY <1>1 DEF Edit, Surveyed
    <2>3. QED
      BY <1>1, <2>1, <2>2 DEF Edit
  <1>2. CASE \E s \in Sources : Prepare(s)
    BY <1>2 DEF Prepare
  <1>3. CASE Refuse \/ \E config \in Configs : Reuse(config)
    BY <1>3 DEF Refuse, Reuse, Accepted
  <1>4. CASE \E config \in Configs : Analyze(config)
    BY <1>4 DEF Analyze
  <1>5. CASE Survey \/ FinishSurvey
    BY <1>5 DEF Survey, FinishSurvey
  <1>6. CASE WriteManifest
    BY <1>6 DEF WriteManifest, Surveyed
  <1>7. CASE WriteFiles
    <2>1. files'.identity = Surveyed /\ files' # None
      <3>1. files' \in FileRecords
        BY <1>7, SurveyedIsIdentity DEF WriteFiles, FileRecords
      <3>2. QED
        BY <1>7, <3>1, NoneAssumption DEF WriteFiles
    <2>2. QED
      BY <1>7, <2>1 DEF WriteFiles, Surveyed
  <1>8. CASE WriteLocal
    <2>1. local' # None /\ local'.source = work.source
      <3>1. local' \in LocalRecords
        BY <1>8, SourcesAssumption DEF WriteLocal, LocalRecords, Work, StepsAreSupplied,
           PrepareSteps
      <3>2. QED
        BY <1>8, <3>1, NoneAssumption DEF WriteLocal
    <2>2. ASSUME prepared' # None PROVE Accepted' /\ local'.source = prepared'
      <3>1. source[work.source].stamp = work.stamp /\ prepared' = work.source
        BY <1>8, <2>2 DEF WriteLocal
      <3>2. QED
        BY <1>8, <2>1, <3>1, SurveyedIsIdentity, NoneAssumption
        DEF WriteLocal, Accepted, Surveyed
    <2>3. QED
      BY <1>8, <2>2 DEF WriteLocal
  <1>9. CASE RemoveOutput \/ Generate
    BY <1>9 DEF RemoveOutput, Generate
  <1>10. CASE WriteAnalysis \/ FinishAnalysis \/ WriteRest
    BY <1>10 DEF WriteAnalysis, FinishAnalysis, WriteRest
  <1>11. CASE MarkFiles \/ WriteState
    BY <1>11 DEF MarkFiles, WriteState
  <1>12. CASE Stop
    BY <1>12 DEF Stop, PrepareSteps, AnalyzeSteps
  <1>13. CASE UNCHANGED vars
    BY <1>13 DEF vars, Accepted, Surveyed
  <1>14. QED
    BY <1>1, <1>2, <1>3, <1>4, <1>5, <1>6, <1>7, <1>8, <1>9, <1>10, <1>11, <1>12, <1>13
    DEF Next, Call, Step

\* After a finished prepare the next analyze is not refused, whatever stopped
\* calls left on the disk before (workspace.py, _write_workspace).
THEOREM PreparedAccepted == Spec => []PreparedIsAccepted
  <1>1. Init => PrepareInv
    BY DEF Init, PrepareInv
  <1>2. PrepareInv => PreparedIsAccepted
    BY DEF PrepareInv, PreparedIsAccepted
  <1>3. QED
    BY <1>1, <1>2, PrepareInvStep, TypeInvariant, PTL DEF Spec

-----------------------------------------------------------------------------
(* Results are right unless a call was stopped *)

Holds(s) == [content |-> source[s].content, kind |-> Kind[s]]

Finished(key) == analysis = [key |-> key, whole |-> TRUE] /\ rest = key

\* An equal stamp means equal contents, of a source that was stat'ed before it
\* was hashed, or did not change meanwhile.
SnapshotInv ==
    /\ local # None => /\ local.stamp <= source[local.source].stamp
                       /\ local.kind = Kind[local.source]
    /\ pc = "finish_survey" =>
           IF Kind[work.source] = "directory"
           THEN work.stamp <= source[work.source].stamp
           ELSE ~raced => work.content = source[work.source].content
    /\ pc \in {"write_manifest", "write_files", "write_local"} =>
           /\ work.stamp <= source[work.source].stamp
           /\ /\ ~raced \/ Kind[work.source] = "directory"
              /\ work.stamp = source[work.source].stamp
              => work.content = source[work.source].content
    /\ /\ ~mixed /\ pc \notin {"write_files", "write_local"}
       /\ local # None /\ source[local.source].stamp = local.stamp
       /\ (~raced \/ Kind[local.source] = "directory")
       => manifest = Holds(local.source)

\* What holds, besides, as long as no prepare was stopped midway and nobody
\* wrote to a source while a call ran.
AnalysisInv ==
    /\ pc \in AnalyzeSteps => work.key.identity = Holds(work.source)
    /\ pc \in AnalyzeSteps \ {"remove"} => work.read = source[work.source].content
    /\ pc = "finish_analysis" => analysis.key = work.key
    /\ pc \in {"write_rest", "mark_files", "write_state"} =>
           analysis = [key |-> work.key, whole |-> TRUE]
    /\ pc \in {"mark_files", "write_state"} => rest = work.key
    /\ pc \notin AnalyzeSteps /\ ~cutShort /\ state # None => Finished(state)
    /\ ~cutShort => RightResult

LEMMA StampsAgree ==
    \A i, j, k \in Nat : i <= j /\ j <= k /\ i = k => i = j
  OBVIOUS

LEMMA SnapshotInvStep ==
    ASSUME TypeInv, TypeInv', PrepareInv, SnapshotInv, [Next]_vars
    PROVE  SnapshotInv'
  <1> USE DEF TypeInv, TypeOK, SnapshotInv, disk, history
  <1>1. ASSUME NEW s \in Sources, NEW c \in Contents, Edit(s, c) PROVE SnapshotInv'
    <2>1. /\ pc' = pc /\ work' = work /\ local' = local /\ manifest' = manifest
          /\ mixed' = mixed /\ (raced => raced') /\ (~raced' => pc = "idle")
      BY <1>1 DEF Edit
    <2>2. ASSUME NEW t \in Sources
          PROVE  /\ source[t].stamp <= source'[t].stamp
                 /\ source'[t].stamp = source[t].stamp => source'[t] = source[t]
                 /\ source[t].stamp \in Nat /\ source'[t].stamp \in Nat
      BY <1>1, BoundsAssumption DEF Edit, Stamps
    <2>3. local # None => local.source \in Sources /\ local.stamp \in Nat
      BY BoundsAssumption DEF LocalRecords, Stamps
    <2>4. pc \in PrepareSteps => work.source \in Sources /\ work.stamp \in Nat
      BY BoundsAssumption DEF StepsAreSupplied, Work, Stamps
    <2>5. local' # None => /\ local'.stamp <= source'[local'.source].stamp
                           /\ local'.kind = Kind[local'.source]
      BY <2>1, <2>2, <2>3
    <2>6. pc' = "finish_survey" =>
              IF Kind[work'.source] = "directory"
              THEN work'.stamp <= source'[work'.source].stamp
              ELSE ~raced' => work'.content = source'[work'.source].content
      BY <2>1, <2>2, <2>4 DEF PrepareSteps
    <2>7. ASSUME pc' \in {"write_manifest", "write_files", "write_local"}
          PROVE  /\ work'.stamp <= source'[work'.source].stamp
                 /\ /\ ~raced' \/ Kind[work'.source] = "directory"
                    /\ work'.stamp = source'[work'.source].stamp
                    => work'.content = source'[work'.source].content
      <3>1. /\ pc \in {"write_manifest", "write_files", "write_local"}
            /\ work.source \in Sources /\ work.stamp \in Nat
        BY <2>1, <2>4, <2>7 DEF PrepareSteps
      <3>2. work.stamp <= source[work.source].stamp
        BY <3>1
      <3>3. work.stamp <= source'[work.source].stamp
        BY <2>2, <3>1, <3>2
      <3>4. ASSUME ~raced' \/ Kind[work.source] = "directory",
                   work.stamp = source'[work.source].stamp
            PROVE  work.content = source'[work.source].content
        <4>1. work.stamp = source[work.source].stamp
          BY <2>2, <3>1, <3>2, <3>4, StampsAgree
        <4>2. ~raced \/ Kind[work.source] = "directory"
          BY <2>1, <3>4
        <4>3. work.content = source[work.source].content
          BY <3>1, <4>1, <4>2
        <4>4. QED
          BY <2>2, <3>1, <3>4, <4>1, <4>3
      <3>5. QED
        BY <2>1, <3>3, <3>4
    <2>8. ASSUME ~mixed', pc' \notin {"write_files", "write_local"}, local' # None,
                 source'[local'.source].stamp = local'.stamp,
                 ~raced' \/ Kind[local'.source] = "directory"
          PROVE  manifest' = Holds(local.source)'
      <3>1. local.source \in Sources /\ local.stamp \in Nat
        BY <2>1, <2>3, <2>8
      <3>2. source[local.source].stamp = local.stamp
        BY <2>1, <2>2, <2>8, <3>1, StampsAgree
      <3>3. /\ ~mixed /\ pc \notin {"write_files", "write_local"} /\ local # None
            /\ ~raced \/ Kind[local.source] = "directory"
        BY <2>1, <2>8
      <3>4. manifest = Holds(local.source)
        BY <3>2, <3>3
      <3>5. source'[local.source] = source[local.source]
        BY <2>1, <2>2, <2>8, <3>1, <3>2
      <3>6. QED
        BY <2>1, <3>4, <3>5 DEF Holds
    <2>9. QED
      BY <2>5, <2>6, <2>7, <2>8
  <1>2. CASE \E s \in Sources : Prepare(s)
    BY <1>2 DEF Prepare, Holds
  <1>3. CASE Refuse \/ \E config \in Configs : Reuse(config)
    BY <1>3 DEF Refuse, Reuse, Holds
  <1>4. CASE \E config \in Configs : Analyze(config)
    BY <1>4 DEF Analyze, Holds
  <1>5. CASE Survey
    <2>1. source[work.source].stamp \in Nat
      BY <1>5, BoundsAssumption DEF Survey, StepsAreSupplied, PrepareSteps, Stamps
    <2>2. QED
      BY <1>5, <2>1 DEF Survey, Stat, Hash, Work, Holds
  <1>6. CASE FinishSurvey
    <2>1. source[work.source].stamp \in Nat
      BY <1>6, BoundsAssumption DEF FinishSurvey, StepsAreSupplied, PrepareSteps, Stamps
    <2>2. QED
      BY <1>6, <2>1 DEF FinishSurvey, Stat, Hash, Work, Holds
  <1>7. CASE WriteManifest \/ WriteFiles
    BY <1>7 DEF WriteManifest, WriteFiles, Holds
  <1>8. CASE WriteLocal
    BY <1>8, BoundsAssumption
    DEF WriteLocal, PrepareInv, Surveyed, Holds, LocalRecords, StepsAreSupplied, PrepareSteps, Stamps
  <1>9. CASE RemoveOutput \/ Generate
    BY <1>9 DEF RemoveOutput, Generate, Holds
  <1>10. CASE WriteAnalysis \/ FinishAnalysis \/ WriteRest
    BY <1>10 DEF WriteAnalysis, FinishAnalysis, WriteRest, Holds
  <1>11. CASE MarkFiles \/ WriteState
    BY <1>11 DEF MarkFiles, WriteState, Holds
  <1>12. CASE Stop
    BY <1>12 DEF Stop, Holds
  <1>13. CASE UNCHANGED vars
    BY <1>13 DEF vars, Holds
  <1>14. QED
    BY <1>1, <1>2, <1>3, <1>4, <1>5, <1>6, <1>7, <1>8, <1>9, <1>10, <1>11, <1>12, <1>13
    DEF Next, Call, Step

-----------------------------------------------------------------------------
LEMMA HistoryStays == TypeOK /\ [Next]_vars => (mixed => mixed') /\ (raced => raced')
  BY DEF TypeOK, Next, Call, Step, vars, history, disk, Edit, Prepare, Refuse, Reuse, Analyze,
     Survey, FinishSurvey, WriteManifest, WriteFiles, WriteLocal, RemoveOutput, Generate,
     WriteAnalysis, FinishAnalysis, WriteRest, MarkFiles, WriteState, Stop

LEMMA AnalysisInvStep ==
    ASSUME TypeInv, TypeInv', SnapshotInv, ~mixed, ~raced, AnalysisInv, [Next]_vars
    PROVE  ~mixed' /\ ~raced' => AnalysisInv'
  <1> SUFFICES ASSUME ~mixed', ~raced' PROVE AnalysisInv'
    OBVIOUS
  <1> USE DEF TypeInv, TypeOK, AnalysisInv, disk, history, AnalyzeSteps
  <1>1. ASSUME NEW s \in Sources, NEW c \in Contents, Edit(s, c) PROVE AnalysisInv'
    BY <1>1 DEF Edit, Finished, RightResult
  <1>2. CASE \E s \in Sources : Prepare(s)
    BY <1>2 DEF Prepare, Finished, RightResult
  <1>3. CASE Refuse
    BY <1>3 DEF Refuse, Finished, RightResult
  <1>4. ASSUME NEW config \in Configs, Reuse(config) PROVE AnalysisInv'
    <2>1. ASSUME ~cutShort PROVE Finished(Key(config))
      <3>1. state = Key(config) /\ state # None
        BY <1>4, NoneAssumption DEF Reuse, Reusable, Accepted, Key, Keys
      <3>2. QED
        BY <1>4, <2>1, <3>1 DEF Reuse
    <2>2. QED
      BY <1>4, <2>1 DEF Reuse, Finished, RightResult
  <1>5. ASSUME NEW config \in Configs, Analyze(config) PROVE AnalysisInv'
    <2>1. manifest = Holds(local.source)
      BY <1>5 DEF Analyze, Accepted, SnapshotInv
    <2>2. QED
      BY <1>5, <2>1 DEF Analyze, Key, Holds, RightResult
  <1>6. CASE Survey \/ FinishSurvey
    BY <1>6 DEF Survey, FinishSurvey, Finished, RightResult
  <1>7. CASE WriteManifest \/ WriteFiles \/ WriteLocal
    BY <1>7 DEF WriteManifest, WriteFiles, WriteLocal, Finished, RightResult
  <1>8. CASE RemoveOutput
    BY <1>8 DEF RemoveOutput, Holds, RightResult
  <1>9. CASE Generate
    BY <1>9 DEF Generate, Holds, RightResult, Work
  <1>10. ASSUME pc \in {"write_analysis", "write_rest"} PROVE MadeOf = work.key
    BY <1>10 DEF MadeOf, Holds, StepsAreSupplied, Keys
  <1>11. CASE WriteAnalysis
    BY <1>10, <1>11 DEF WriteAnalysis, Holds, RightResult
  <1>12. CASE FinishAnalysis
    BY <1>12 DEF FinishAnalysis, Holds, RightResult, StepsAreSupplied, Made
  <1>13. CASE WriteRest
    BY <1>10, <1>13 DEF WriteRest, Holds, RightResult
  <1>14. CASE MarkFiles
    BY <1>14 DEF MarkFiles, Holds, RightResult
  <1>15. CASE WriteState
    BY <1>15 DEF WriteState, Finished, RightResult
  <1>16. CASE Stop
    BY <1>16 DEF Stop, Finished, RightResult
  <1>17. CASE UNCHANGED vars
    BY <1>17 DEF vars, Holds, Finished, RightResult
  <1>18. QED
    BY <1>1, <1>2, <1>3, <1>4, <1>5, <1>6, <1>7, <1>8, <1>9, <1>11, <1>12, <1>13, <1>14,
       <1>15, <1>16, <1>17
    DEF Next, Call, Step

-----------------------------------------------------------------------------
LEMMA SnapshotInvariant == Spec => [](PrepareInv /\ SnapshotInv)
  <1>1. Init => PrepareInv /\ SnapshotInv
    BY DEF Init, PrepareInv, SnapshotInv
  <1>2. TypeInv /\ TypeInv' /\ PrepareInv /\ SnapshotInv /\ [Next]_vars => SnapshotInv'
    BY SnapshotInvStep
  <1>3. QED
    BY <1>1, <1>2, PrepareInvStep, TypeInvariant, PTL DEF Spec

\* A result is made whole, of the contents and the configuration its key
\* stands for, unless an analysis was stopped since state.json was last
\* written, a prepare was stopped before its last file, or a source was
\* written to while a call ran (workspace.py, analyze_game_workspace).
THEOREM ResultsAreRight == Spec => []RightUnlessStopped
  <1> DEFINE Right == ~mixed /\ ~raced => AnalysisInv
  <1>1. Init => Right
    BY DEF Init, AnalysisInv, AnalyzeSteps, RightResult
  <1>2. TypeInv /\ TypeInv' /\ SnapshotInv /\ Right /\ [Next]_vars => Right'
    BY AnalysisInvStep, HistoryStays DEF TypeInv
  <1>3. Right => RightUnlessStopped
    BY DEF AnalysisInv, RightUnlessStopped
  <1> HIDE DEF Right
  <1>4. QED
    BY <1>1, <1>2, <1>3, SnapshotInvariant, TypeInvariant, PTL DEF Spec

\* An analysis is started only on the contents that prepare hashed; a write
\* to a directory is noticed even if it came while prepare ran
\* (workspace.py, _validate_snapshot).
THEOREM StartsAreOnPrepared == Spec => []StartsOnPreparedContents
  <1>1. Init => StartsOnPreparedContents
    BY DEF Init, StartsOnPreparedContents, AnalyzeSteps
  <1>2. ASSUME TypeInv, TypeInv', SnapshotInv, StartsOnPreparedContents, [Next]_vars
        PROVE  StartsOnPreparedContents'
    <2> SUFFICES ASSUME ~mixed', pc' \in AnalyzeSteps, (~raced' \/ Kind[work'.source] = "directory")
                 PROVE  work'.accepted = work'.key.identity.content
      BY <1>2 DEF StartsOnPreparedContents
    <2> USE DEF TypeInv, TypeOK, disk, history, AnalyzeSteps, PrepareSteps
    <2>1. CASE \E config \in Configs : Analyze(config)
      <3>1. ~mixed /\ pc = "idle" /\ Accepted
        BY <1>2, <2>1 DEF Analyze
      <3>2. (~raced \/ Kind[local.source] = "directory")
        BY <1>2, <2>1 DEF Analyze
      <3>3. manifest = Holds(local.source)
        BY <1>2, <3>1, <3>2 DEF Accepted, SnapshotInv
      <3>4. QED
        BY <1>2, <2>1, <3>3 DEF Analyze, Key, Holds
    <2>2. CASE ~\E config \in Configs : Analyze(config)
      <3>1. /\ pc \in AnalyzeSteps /\ work'.accepted = work.accepted
            /\ work'.key = work.key /\ work'.source = work.source
        BY <1>2, <2>2 DEF Next, Call, Step, vars, Edit, Prepare, Refuse, Reuse, Survey,
           FinishSurvey, WriteManifest, WriteFiles, WriteLocal, RemoveOutput, Generate, Work,
           WriteAnalysis, FinishAnalysis, WriteRest, MarkFiles, WriteState, Stop
      <3>2. ~mixed /\ (raced => raced')
        BY <1>2, HistoryStays
      <3>3. QED
        BY <1>2, <3>1, <3>2 DEF StartsOnPreparedContents
    <2>3. QED
      BY <2>1, <2>2
  <1>3. QED
    BY <1>1, <1>2, SnapshotInvariant, TypeInvariant, PTL DEF Spec
=============================================================================
