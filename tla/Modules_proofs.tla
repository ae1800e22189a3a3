--------------------------------- MODULE Modules_proofs --------------------------------
(* Theorems about the two parts that watch the modules: the graduated response over the  *)
(* critical modules, for any set of modules, every configuration, delay and minimum stay, *)
(* and the poll of the bus over the registry and the module manager, for any ranges,     *)
(* thresholds and answers.                                                               *)
EXTENDS GraduatedResponse, ModuleScan, FiniteSetTheorems, TLAPS
--------------------------------------------------------------------------------------
(* GraduatedResponse                                                                     *)

Assessments == [health : Healths, level : Levels, failures : Nat, unseen : 0 .. MaxUnseen,
                offline : BOOLEAN, acted : BOOLEAN]

(* What OfflineIsUnseen says of one module, with its type.                               *)
Sound(a, m) == /\ a \in Assessments /\ a.failures <= Config[m].threshold
               /\ a.offline <=> a.health = "OFFLINE"
               /\ a.offline => a.unseen > Config[m].offline

LEMMA Configured ==
  ASSUME NEW m \in Modules
  PROVE  /\ Config[m].critical \in BOOLEAN /\ Config[m].offline \in Nat
         /\ Config[m].failure \in Nat /\ Config[m].threshold \in Nat
         /\ MaxUnseen \in Nat /\ Config[m].offline < MaxUnseen
  BY DetectorAssumption

LEMMA LevelNumbers ==
  /\ NORMAL = 0 /\ MONITORING = 1 /\ WARNING = 2 /\ CRITICAL = 3 /\ EMERGENCY = 4
  /\ Levels = 0 .. 4
  BY DEF NORMAL, MONITORING, WARNING, CRITICAL, EMERGENCY, Levels

LEMMA JudgementType ==
  ASSUME NEW c
  PROVE  /\ Judgement(c).health \in Healths \ {"OFFLINE"} /\ Judgement(c).level \in Levels
<1> DEFINE j == Judgement(c)
<1>1. \/ j = [health |-> "FAILED",   level |-> EMERGENCY]
      \/ j = [health |-> "FAILING",  level |-> CRITICAL]
      \/ j = [health |-> "DEGRADED", level |-> WARNING]
      \/ j = [health |-> "DEGRADED", level |-> MONITORING]
      \/ j = [health |-> "HEALTHY",  level |-> NORMAL]
  BY DEF Judgement
<1> HIDE DEF j
<1>2. j.health \in Healths \ {"OFFLINE"} /\ j.level \in {EMERGENCY, CRITICAL, WARNING, MONITORING, NORMAL}
  BY <1>1 DEF Healths
<1> QED
  BY <1>2, LevelNumbers DEF j

LEMMA SoundParts ==
  ASSUME NEW m \in Modules, NEW a, Sound(a, m)
  PROVE  /\ a \in Assessments /\ a.health \in Healths /\ a.level \in Levels
         /\ a.failures \in Nat /\ a.failures <= Config[m].threshold
         /\ a.unseen \in 0 .. MaxUnseen /\ a.offline \in BOOLEAN /\ a.acted \in BOOLEAN
  BY DEF Sound, Assessments

(* critical_module_check_single_module keeps a module's assessment sound.                 *)
LEMMA SeenSound ==
  ASSUME NEW m \in Modules, NEW a, Sound(a, m), NEW c
  PROVE  Sound(Seen(a, c), m)
<1> DEFINE h == Judgement(c).health
           l == Judgement(c).level
<1>1. h \in Healths /\ h # "OFFLINE" /\ l \in Levels
  BY JudgementType
<1>2. Seen(a, c) = [a EXCEPT !.failures = 0, !.unseen = 0, !.offline = FALSE,
                             !.health = h, !.level = l]
  BY DEF Seen
<1> HIDE DEF h, l
<1>3. MaxUnseen \in Nat /\ 0 \in 0 .. MaxUnseen /\ 0 <= Config[m].threshold
  BY Configured
<1>4. Seen(a, c) \in Assessments
  <2> DEFINE rested == [a EXCEPT !.failures = 0, !.unseen = 0, !.offline = FALSE]
  <2>1. rested \in Assessments
    <3>1. a \in Assessments
      BY SoundParts
    <3> QED
      BY <1>3, <3>1 DEF Assessments
  <2>2. Seen(a, c) = [rested EXCEPT !.health = h, !.level = l]
    BY <1>2
  <2> HIDE DEF rested
  <2> QED
    BY <1>1, <2>1, <2>2 DEF Assessments
<1>5. /\ Seen(a, c).failures = 0 /\ Seen(a, c).offline = FALSE /\ Seen(a, c).health = h
  BY <1>2, SoundParts DEF Assessments
<1> QED
  BY <1>1, <1>3, <1>4, <1>5 DEF Sound

LEMMA MissedSound ==
  ASSUME NEW m \in Modules, NEW a, Sound(a, m)
  PROVE  Sound(Missed(a, m), m)
<1> DEFINE n == IF a.failures < Config[m].threshold THEN a.failures + 1 ELSE a.failures
           missed == [a EXCEPT !.failures = n]
           late == [missed EXCEPT !.offline = TRUE, !.health = "OFFLINE", !.level = WARNING]
<1>1. n \in Nat /\ n <= Config[m].threshold
  BY Configured DEF Sound, Assessments
<1>2. /\ missed \in Assessments /\ missed.failures = n /\ missed.offline = a.offline
      /\ missed.health = a.health /\ missed.unseen = a.unseen
  BY <1>1 DEF Sound, Assessments
<1>3. Missed(a, m) = IF a.unseen > Config[m].offline /\ ~a.offline THEN late ELSE missed
  BY DEF Missed
<1> HIDE DEF missed, n
<1>a. "OFFLINE" \in Healths /\ WARNING \in Levels
  BY LevelNumbers DEF Healths
<1>b. late \in Assessments
  BY <1>2, <1>a DEF Assessments
<1>4. /\ late.failures = n /\ late.offline = TRUE
      /\ late.health = "OFFLINE" /\ late.unseen = a.unseen
  BY <1>2 DEF Assessments
<1> HIDE DEF late
<1> QED
  BY <1>1, <1>2, <1>3, <1>4, <1>b DEF Sound

LEMMA CheckedSound ==
  ASSUME NEW m \in Modules, Sound(mods[m], m)
  PROVE  Sound(Checked(m), m)
<1>1. PICK a : Sound(a, m) /\ Checked(m) = Acted(a, m)
  BY SeenSound, MissedSound DEF Checked
<1> DEFINE acted == a.acted \/ (ActionDue(a, m) /\ (linked \/ Config[m].log_only))
<1>2. Acted(a, m) = [a EXCEPT !.acted = acted]
  BY DEF Acted
<1>3. acted \in BOOLEAN
  OBVIOUS
<1> HIDE DEF acted
<1>4. /\ Acted(a, m) \in Assessments /\ Acted(a, m).failures = a.failures
      /\ Acted(a, m).offline = a.offline /\ Acted(a, m).health = a.health
      /\ Acted(a, m).unseen = a.unseen
  BY <1>1, <1>2, <1>3 DEF Sound, Assessments
<1> QED
  BY <1>1, <1>4 DEF Sound

LEMMA OlderSound ==
  ASSUME NEW m \in Modules, NEW table, Sound(table[m], m)
  PROVE  Sound(Older(table)[m], m) /\ Older(table)[m].health = table[m].health
<1> DEFINE a == table[m]
<1>a. Sound(a, m)
  OBVIOUS
<1>b. Older(table)[m] = [a EXCEPT !.unseen = IF a.unseen < MaxUnseen THEN a.unseen + 1
                                            ELSE a.unseen]
  BY DEF Older
<1> HIDE DEF a
<1>0. a.unseen \in 0 .. MaxUnseen /\ MaxUnseen \in Nat
  BY <1>a, Configured, SoundParts
<1>1. PICK u \in 0 .. MaxUnseen :
        u >= a.unseen /\ Older(table)[m] = [a EXCEPT !.unseen = u]
  <2> DEFINE u == IF a.unseen < MaxUnseen THEN a.unseen + 1 ELSE a.unseen
  <2>1. u \in 0 .. MaxUnseen /\ u >= a.unseen
    BY <1>0
  <2>2. Older(table)[m] = [a EXCEPT !.unseen = u]
    BY <1>b
  <2> HIDE DEF u
  <2> QED
    BY <2>1, <2>2
<1>2. /\ Older(table)[m] \in Assessments /\ Older(table)[m].failures = a.failures
      /\ Older(table)[m].offline = a.offline /\ Older(table)[m].health = a.health
      /\ Older(table)[m].unseen = u
  BY <1>a, <1>1, SoundParts DEF Assessments
<1>3. a.offline => u > Config[m].offline
  BY <1>a, <1>0, <1>1, Configured DEF Sound
<1> QED
  BY <1>a, <1>2, <1>3 DEF Sound, a

(* A search for the highest level, from a given one, ends.                                *)
LEMMA HighestExists ==
  ASSUME NEW lv \in [Modules -> 0 .. 3], NEW from \in 0 .. 3
  PROVE  \E l \in from .. 3 : /\ \A m \in Modules : lv[m] <= l
                              /\ l = from \/ \E m \in Modules : lv[m] = l
<1>1. CASE \E m \in Modules : lv[m] = 3
  BY <1>1
<1>2. CASE (\A m \in Modules : lv[m] # 3) /\ (\E m \in Modules : lv[m] = 2) /\ from < 2
  <2>1. ASSUME NEW m \in Modules PROVE lv[m] <= 2
    <3>1. lv[m] \in {0, 1, 2, 3}
      OBVIOUS
    <3> QED
      BY <1>2, <3>1
  <2>2. 2 \in from .. 3
    BY <1>2
  <2> QED
    BY <1>2, <2>1, <2>2
<1>3. CASE /\ \A m \in Modules : lv[m] # 3 /\ lv[m] # 2
           /\ \E m \in Modules : lv[m] = 1
           /\ from < 1
  <2>1. ASSUME NEW m \in Modules PROVE lv[m] <= 1
    <3>1. lv[m] \in {0, 1, 2, 3}
      OBVIOUS
    <3> QED
      BY <1>3, <3>1
  <2>2. 1 \in from .. 3
    BY <1>3
  <2> QED
    BY <1>3, <2>1, <2>2
<1>4. CASE \A m \in Modules : lv[m] <= from
  BY <1>4
<1> QED
  BY <1>1, <1>2, <1>3, <1>4

(* critical_module_determine_response_level answers with a level.                         *)
LEMMA HighestType ==
  ASSUME NEW judged, \A m \in Modules : judged[m].level \in Levels, NEW from \in 0 .. 3
  PROVE  Highest(judged, from) \in Levels
<1>1. CASE \E m \in Modules : judged[m].level = EMERGENCY
  BY <1>1, LevelNumbers DEF Highest
<1>2. CASE ~ \E m \in Modules : judged[m].level = EMERGENCY
  <2> DEFINE lv == [m \in Modules |-> judged[m].level]
             Top(l) == /\ \A m \in Modules : judged[m].level <= l
                       /\ l = from \/ \E m \in Modules : judged[m].level = l
  <2>1. lv \in [Modules -> Levels] /\ \A m \in Modules : lv[m] = judged[m].level /\ lv[m] # 4
    BY <1>2, LevelNumbers
  <2> HIDE DEF lv
  <2>2. lv \in [Modules -> 0 .. 3]
    BY <2>1, LevelNumbers
  <2>3. \E l \in from .. 3 : Top(l)
    BY <2>1, <2>2, HighestExists
  <2>4. Highest(judged, from) = CHOOSE l \in from .. 3 : Top(l)
    BY <1>2, LevelNumbers DEF Highest
  <2> HIDE DEF Top
  <2>5. Highest(judged, from) \in from .. 3
    BY <2>3, <2>4
  <2> QED
    BY <2>5, LevelNumbers
<1> QED
  BY <1>1, <1>2

LEMMA DeterminedType ==
  ASSUME NEW d, NEW judged, \A m \in Modules : judged[m].level \in Levels
  PROVE  Determined(d, judged) \in Levels /\ (d.lost => Determined(d, judged) = EMERGENCY)
<1>1. /\ Highest(judged, NORMAL) \in Levels /\ Highest(judged, WARNING) \in Levels
      /\ Highest(judged, CRITICAL) \in Levels
  BY HighestType, LevelNumbers
<1>2. EMERGENCY \in Levels
  BY LevelNumbers
<1> QED
  BY <1>1, <1>2 DEF Determined
---------------------------------------------------------------------------------------
Detectors == [mode : {"off", "ready", "active"}, degraded : BOOLEAN, failed : BOOLEAN,
              lost : BOOLEAN, level : Levels]
Responses == [mode : {"off", "ready", "active"}, level : Levels, moving : BOOLEAN,
              target : Levels, waited : 0 .. Delay, stayed : 0 .. MinStay]

(* What the code does for every critical module, whatever its max_level.                 *)
LossRaises ==
  (\E m \in Modules : Down(mods[m]) /\ Config[m].critical) => det.level = EMERGENCY

(* The detector's part of the invariant.                                                 *)
DetectorInv == /\ det \in Detectors /\ mods \in [Modules -> Assessments]
               /\ \A m \in Modules : Sound(mods[m], m)
               /\ LossRaises
               /\ cond \in [Modules -> Answers] /\ linked \in BOOLEAN

(* While nothing was called from outside, a transition downwards began after the minimum   *)
(* stay: it is what remains to be known when the transition ends.                          *)
Patient(r) == r.moving /\ r.target < r.level => r.stayed >= MinStay
ResponseInv == resp \in Responses /\ calls \in 0 .. MaxCalls /\ (calls = 0 => Patient(resp))

IInv == DetectorInv /\ ResponseInv

LEMMA UnassessedSound == \A m \in Modules : Sound(Unassessed, m)
<1> SUFFICES ASSUME NEW m \in Modules PROVE Sound(Unassessed, m)
  OBVIOUS
<1>1. MaxUnseen \in Nat /\ 0 <= Config[m].threshold
  BY Configured
<1>2. "UNKNOWN" \in Healths /\ NORMAL \in Levels /\ 0 \in 0 .. MaxUnseen
  BY <1>1, LevelNumbers DEF Healths
<1>3. Unassessed \in Assessments
  BY <1>2 DEF Unassessed, Assessments
<1> QED
  BY <1>1, <1>3 DEF Sound, Unassessed

LEMMA ClearedDetector ==
  ASSUME mods' = [m \in Modules |-> Unassessed], NEW mode \in {"off", "ready"},
         det' = [mode |-> mode, degraded |-> FALSE, failed |-> FALSE,
                 lost |-> FALSE, level |-> NORMAL],
         cond' \in [Modules -> Answers], linked' \in BOOLEAN
  PROVE  DetectorInv'
<1>1. det' \in Detectors
  BY LevelNumbers DEF Detectors
<1>2. mods' \in [Modules -> Assessments] /\ \A m \in Modules : Sound(mods'[m], m)
  BY UnassessedSound DEF Sound
<1>3. LossRaises'
  BY DEF LossRaises, Unassessed, Down
<1> QED
  BY <1>1, <1>2, <1>3 DEF DetectorInv, Sound

LEMMA CheckInv ==
  ASSUME DetectorInv, Check
  PROVE  DetectorInv'
<1> DEFINE judged == [m \in Modules |-> Checked(m)]
           d == Counted(judged)
           level == Determined(d, judged)
<1>1. /\ mods' = judged /\ det' = [d EXCEPT !.level = level]
      /\ UNCHANGED <<cond, linked>>
  BY DEF Check
<1>2. \A m \in Modules : Sound(judged[m], m)
  BY CheckedSound DEF DetectorInv
<1>3. judged \in [Modules -> Assessments] /\ \A m \in Modules : judged[m].level \in Levels
  BY <1>2, SoundParts
<1>4. d \in Detectors
  BY DEF Counted, DetectorInv, Detectors
<1>5. d.lost <=> \E m \in Modules : Down(judged[m]) /\ Config[m].critical
  BY DEF Counted, DetectorInv, Detectors
<1>6. level \in Levels /\ (d.lost => level = EMERGENCY)
  BY <1>3, DeterminedType
<1> HIDE DEF judged, d, level
<1>7. det' \in Detectors /\ det'.level = level
  BY <1>1, <1>4, <1>6 DEF Detectors
<1>8. LossRaises'
  BY <1>1, <1>5, <1>6, <1>7 DEF LossRaises, Down
<1>9. mods' \in [Modules -> Assessments] /\ \A m \in Modules : Sound(mods'[m], m)
  BY <1>1, <1>2, <1>3
<1> QED
  BY <1>1, <1>7, <1>8, <1>9 DEF DetectorInv, Sound

LEMMA RecoverInv ==
  ASSUME DetectorInv, NEW m \in Modules, HandleRecovery(m)
  PROVE  DetectorInv'
<1> DEFINE a == mods[m]
           n == [a EXCEPT !.acted = FALSE, !.failures = 0, !.offline = FALSE,
                          !.health = "HEALTHY", !.level = NORMAL]
<1>1. mods' = [mods EXCEPT ![m] = n] /\ UNCHANGED <<det, cond, linked>>
  BY DEF HandleRecovery
<1>2. Sound(a, m) /\ a \in Assessments
  BY DEF DetectorInv, Sound
<1>3. "HEALTHY" \in Healths /\ NORMAL \in Levels /\ 0 <= Config[m].threshold
  BY Configured, LevelNumbers DEF Healths
<1> HIDE DEF a
<1>4. n \in Assessments
  BY <1>2, <1>3 DEF Assessments
<1>5. n.failures = 0 /\ n.offline = FALSE /\ n.health = "HEALTHY"
  BY <1>2 DEF Assessments
<1> HIDE DEF n
<1>6. Sound(n, m)
  BY <1>3, <1>4, <1>5 DEF Sound
<1>7. \A k \in Modules : mods'[k] = IF k = m THEN n ELSE mods[k]
  BY <1>1 DEF DetectorInv
<1>8. mods' \in [Modules -> Assessments] /\ \A k \in Modules : Sound(mods'[k], k)
  BY <1>1, <1>4, <1>6, <1>7 DEF DetectorInv
<1>9. LossRaises'
  <2>1. ~Down(n)
    BY <1>5 DEF Down
  <2>2. \A k \in Modules : Down(mods'[k]) => Down(mods[k])
    BY <1>7, <2>1
  <2> QED
    BY <1>1, <2>2 DEF DetectorInv, LossRaises, Down
<1> QED
  BY <1>1, <1>8, <1>9 DEF DetectorInv, Sound

LEMMA OlderInv ==
  ASSUME DetectorInv, mods' = Older(mods), UNCHANGED <<det, cond, linked>>
  PROVE  DetectorInv'
<1>1. \A m \in Modules : Sound(mods'[m], m) /\ mods'[m].health = mods[m].health
  BY OlderSound DEF DetectorInv
<1>2. mods' \in [Modules -> Assessments]
  BY <1>1 DEF Older, Sound
<1>3. LossRaises'
  BY <1>1 DEF DetectorInv, LossRaises, Down
<1> QED
  BY <1>1, <1>2, <1>3 DEF DetectorInv, Sound

LEMMA SameInv ==
  ASSUME DetectorInv, UNCHANGED detVars
  PROVE  DetectorInv'
<1>1. UNCHANGED <<det, mods, cond, linked>>
  BY DEF detVars
<1> QED
  BY <1>1 DEF DetectorInv, Sound, LossRaises, Down

(* What changes neither the assessments nor the level of the system.                      *)
LEMMA ModeInv ==
  ASSUME DetectorInv, NEW mode \in {"off", "ready", "active"},
         det' = [det EXCEPT !.mode = mode] \/ det' = det, mods' = mods,
         cond' \in [Modules -> Answers], linked' \in BOOLEAN
  PROVE  DetectorInv'
<1>1. det' \in Detectors /\ det'.level = det.level
  BY DEF DetectorInv, Detectors
<1> QED
  BY <1>1 DEF DetectorInv, Sound, LossRaises, Down

LEMMA DetectorStep ==
  ASSUME DetectorInv, Detector \/ StopDetector \/ DeinitDetector \/ Unlink
  PROVE  DetectorInv'
<1> USE DEF DetectorInv
<1>1. CASE Check
  BY <1>1, CheckInv
<1>2. CASE InitDetector
  BY <1>2, ClearedDetector DEF InitDetector
<1>3. CASE StartDetector \/ StopDetector \/ DeinitDetector
  BY <1>3, ModeInv DEF StartDetector, StopDetector, DeinitDetector, SetMode
<1>4. CASE Link \/ Unlink
  BY <1>4, ModeInv DEF Link, Unlink
<1>5. CASE Change
  <2>1. cond' \in [Modules -> Answers]
    BY <1>5, DetectorAssumption DEF Change
  <2> QED
    BY <1>5, <2>1, ModeInv DEF Change
<1> QED
  BY <1>1, <1>2, <1>3, <1>4, <1>5 DEF Detector
---------------------------------------------------------------------------------------
LEMMA ResponseTimes == Delay \in Nat /\ MinStay \in Nat /\ Requests \subseteq Levels
  BY ResponseAssumption

LEMMA LevelSetType ==
  ASSUME NEW r \in Responses, NEW new \in Levels
  PROVE  /\ LevelSet(r, new) \in Responses
         /\ LevelSet(r, new).level = r.level /\ LevelSet(r, new).stayed = r.stayed
         /\ ~r.moving /\ (new < r.level => r.stayed >= MinStay) => Patient(LevelSet(r, new))
<1> DEFINE n == [r EXCEPT !.moving = TRUE, !.target = new, !.waited = 0]
<1>1. 0 \in 0 .. Delay /\ Delay \in Nat
  BY ResponseTimes
<1>2. n \in Responses
  BY <1>1 DEF Responses
<1>3. /\ n.level = r.level /\ n.stayed = r.stayed /\ n.target = new
  BY DEF Responses
<1>4. LevelSet(r, new) = IF new = r.level THEN r ELSE n
  BY DEF LevelSet
<1> HIDE DEF n
<1> QED
  BY <1>2, <1>3, <1>4 DEF Patient

LEMMA SettledType ==
  ASSUME NEW r \in Responses
  PROVE  /\ Settled(r) \in Responses /\ Settled(r).mode = r.mode
         /\ Settled(r) = r
              \/ (r.moving /\ ~Settled(r).moving /\ Settled(r).level = r.target)
<1> DEFINE n == [r EXCEPT !.moving = FALSE, !.level = r.target, !.waited = 0, !.stayed = 0]
<1>1. 0 \in 0 .. Delay /\ 0 \in 0 .. MinStay /\ Delay \in Nat /\ MinStay \in Nat
  BY ResponseTimes
<1>2. n \in Responses
  BY <1>1 DEF Responses
<1>3. n.moving = FALSE /\ n.level = r.target /\ n.mode = r.mode
  BY DEF Responses
<1>4. Settled(r) = IF r.moving /\ r.waited >= Delay THEN n ELSE r
  BY DEF Settled
<1> HIDE DEF n
<1> QED
  BY <1>2, <1>3, <1>4

LEMMA UpdateInv ==
  ASSUME IInv, Update
  PROVE  /\ ResponseInv'
         /\ calls = 0 /\ resp'.level < resp.level => resp.stayed >= MinStay
<1> DEFINE r == Settled(resp)
           system == Determined(det, mods)
<1>1. /\ resp \in Responses /\ calls \in 0 .. MaxCalls /\ UNCHANGED calls
      /\ calls = 0 => Patient(resp)
      /\ resp' = IF r.moving THEN r ELSE Followed(r, system)
  BY DEF IInv, ResponseInv, Update
<1>2. system \in Levels
  <2>1. \A m \in Modules : mods[m].level \in Levels
    BY DEF IInv, DetectorInv, Assessments
  <2> QED
    BY <2>1, DeterminedType
<1>3. /\ r \in Responses
      /\ r = resp \/ (resp.moving /\ ~r.moving /\ r.level = resp.target)
  BY <1>1, SettledType
<1> HIDE DEF r, system
<1>4. CASE r.moving
  BY <1>1, <1>3, <1>4 DEF ResponseInv, Responses, Levels, NORMAL, EMERGENCY
<1>5. CASE ~r.moving
  <2>1. resp' = Followed(r, system)
    BY <1>1, <1>5
  <2>2. resp' = r \/ (resp' = LevelSet(r, system) /\ ~(system < r.level /\ r.stayed < MinStay))
    BY <2>1 DEF Followed
  <2>3. r.stayed \in 0 .. MinStay /\ MinStay \in Nat
    BY <1>3, ResponseTimes DEF Responses
  <2>4. resp' \in Responses /\ resp'.level = r.level /\ Patient(resp')
    <3>1. CASE resp' = r
      BY <1>3, <1>5, <3>1 DEF Patient
    <3>2. CASE resp' = LevelSet(r, system) /\ ~(system < r.level /\ r.stayed < MinStay)
      <4>1. system < r.level => r.stayed >= MinStay
        BY <2>3, <3>2
      <4> QED
        BY <1>2, <1>3, <1>5, <3>2, <4>1, LevelSetType
    <3> QED
      BY <2>2, <3>1, <3>2
  <2>5. r.level < resp.level => resp.moving /\ resp.target < resp.level
    <3>1. resp.level \in Nat /\ resp.target \in Nat
      BY <1>1, LevelNumbers DEF Responses
    <3> QED
      BY <1>3, <3>1
  <2>6. calls = 0 /\ resp'.level < resp.level => resp.stayed >= MinStay
    BY <1>1, <2>4, <2>5 DEF Patient
  <2> QED
    BY <1>1, <2>4, <2>6 DEF ResponseInv, Patient
<1> QED
  BY <1>4, <1>5

(* The calls from outside end what Patient knows of, by calls' # 0; those that leave calls  *)
(* alone and are not Update start no transition.                                          *)
LEMMA OutsideInv ==
  ASSUME IInv, Outside
  PROVE  IInv' /\ resp'.level = resp.level
<1>1. /\ calls' \in 0 .. MaxCalls /\ calls' # 0 /\ resp \in Responses
  <2>1. calls \in 0 .. MaxCalls /\ MaxCalls \in Nat /\ calls < MaxCalls /\ calls' = calls + 1
    BY ResponseAssumption DEF IInv, ResponseInv, Outside
  <2> QED
    BY <2>1 DEF IInv, ResponseInv
<1>2. CASE SetLevel
  <2>1. PICK l \in Requests : resp' = LevelSet(resp, l)
    BY <1>2 DEF SetLevel
  <2>2. resp' \in Responses /\ resp'.level = resp.level
    BY <1>1, <2>1, ResponseTimes, LevelSetType
  <2>3. DetectorInv'
    BY <1>2, SameInv DEF SetLevel, IInv
  <2> QED
    BY <1>1, <2>2, <2>3 DEF IInv, ResponseInv
<1>3. CASE Recover
  <2>1. DetectorInv'
    BY <1>3, RecoverInv DEF Recover, IInv
  <2> QED
    BY <1>1, <1>3, <2>1 DEF Recover, IInv, ResponseInv
<1>4. CASE StopResponse \/ DeinitResponse
  <2>1. PICK mode \in {"off", "ready"} : resp' = [resp EXCEPT !.mode = mode]
    BY <1>4 DEF StopResponse, DeinitResponse, SetResponseMode
  <2>2. resp' \in Responses /\ resp'.level = resp.level
    BY <1>1, <2>1 DEF Responses
  <2>3. DetectorInv'
    BY <1>4, SameInv DEF StopResponse, DeinitResponse, SetResponseMode, IInv
  <2> QED
    BY <1>1, <2>2, <2>3 DEF IInv, ResponseInv
<1>5. CASE (StopDetector \/ DeinitDetector \/ Unlink) /\ UNCHANGED resp
  BY <1>1, <1>5, DetectorStep DEF IInv, ResponseInv
<1> QED
  BY <1>2, <1>3, <1>4, <1>5 DEF Outside

LEMMA TickInv ==
  ASSUME IInv, Tick
  PROVE  IInv' /\ resp'.level = resp.level
<1> DEFINE waited == IF resp.moving THEN Capped(resp.waited, Delay) ELSE resp.waited
           stayed == Capped(resp.stayed, MinStay)
<1>1. /\ resp \in Responses /\ resp.waited \in 0 .. Delay /\ resp.stayed \in 0 .. MinStay
      /\ Delay \in Nat /\ MinStay \in Nat
  BY ResponseTimes DEF IInv, ResponseInv, Responses
<1>2. waited \in 0 .. Delay
  BY <1>1 DEF Capped
<1>3. stayed \in 0 .. MinStay /\ (resp.stayed >= MinStay => stayed >= MinStay)
  BY <1>1 DEF Capped
<1>4. resp' = [resp EXCEPT !.waited = waited, !.stayed = stayed]
  BY DEF Tick
<1> HIDE DEF waited, stayed
<1>5. resp' \in Responses
  BY <1>1, <1>2, <1>3, <1>4 DEF Responses
<1>6. /\ resp'.level = resp.level /\ resp'.moving = resp.moving
      /\ resp'.target = resp.target /\ resp'.stayed = stayed
  BY <1>1, <1>4 DEF Responses
<1>7. ResponseInv'
  BY <1>3, <1>5, <1>6 DEF IInv, ResponseInv, Patient, Tick
<1>8. DetectorInv'
  BY OlderInv DEF Tick, IInv
<1> QED
  BY <1>6, <1>7, <1>8 DEF IInv

(* init gives a response at rest, and start one that is as it was.                         *)
LEMMA BeginInv ==
  ASSUME IInv, InitResponse \/ StartResponse
  PROVE  IInv' /\ (resp'.level = resp.level \/ resp'.mode # "active")
<1>1. DetectorInv'
  BY SameInv DEF InitResponse, StartResponse, SetResponseMode, IInv
<1>2. CASE InitResponse
  <2>1. 0 \in 0 .. Delay /\ 0 \in 0 .. MinStay /\ NORMAL \in Levels
    BY ResponseTimes, LevelNumbers
  <2>2. resp' = [mode |-> "ready", level |-> NORMAL, moving |-> FALSE, target |-> NORMAL,
                 waited |-> 0, stayed |-> 0]
    BY <1>2 DEF InitResponse, AtRest
  <2>3. resp' \in Responses /\ ~resp'.moving /\ resp'.mode = "ready"
    BY <2>1, <2>2 DEF Responses
  <2> QED
    BY <1>1, <1>2, <2>3 DEF InitResponse, IInv, ResponseInv, Patient
<1>3. CASE StartResponse
  <2>1. resp' = [resp EXCEPT !.mode = "active"] /\ UNCHANGED calls
    BY <1>3 DEF StartResponse, SetResponseMode
  <2>2. /\ resp' \in Responses /\ resp'.level = resp.level /\ resp'.moving = resp.moving
        /\ resp'.target = resp.target /\ resp'.stayed = resp.stayed
    BY <2>1 DEF IInv, ResponseInv, Responses
  <2> QED
    BY <1>1, <2>1, <2>2 DEF IInv, ResponseInv, Patient
<1> QED
  BY <1>2, <1>3

LEMMA StepInv ==
  ASSUME IInv, [Next]_vars
  PROVE  /\ IInv'
         /\ calls = 0 /\ resp'.level < resp.level /\ resp'.mode = "active"
              => resp.stayed >= MinStay
<1>0. resp.level \in Int
  BY LevelNumbers DEF IInv, ResponseInv, Responses
<1>1. CASE Detector /\ UNCHANGED <<resp, calls>>
  BY <1>0, <1>1, DetectorStep DEF IInv, ResponseInv
<1>2. CASE InitResponse \/ StartResponse
  BY <1>0, <1>2, BeginInv
<1>3. CASE Update
  <2>1. DetectorInv'
    BY <1>3, SameInv DEF Update, IInv
  <2> QED
    BY <1>3, <2>1, UpdateInv DEF IInv
<1>4. CASE Outside
  BY <1>0, <1>4, OutsideInv
<1>5. CASE Tick
  BY <1>0, <1>5, TickInv
<1>6. CASE UNCHANGED vars
  <2>1. UNCHANGED detVars /\ UNCHANGED <<resp, calls>>
    BY <1>6 DEF vars, detVars
  <2> QED
    BY <1>0, <2>1, SameInv DEF IInv, ResponseInv
<1> QED
  BY <1>1, <1>2, <1>3, <1>4, <1>5, <1>6 DEF Next

LEMMA InvInit ==
  ASSUME Init
  PROVE  IInv
<1>1. det \in Detectors
  BY LevelNumbers DEF Init, DetectorInit, Detectors
<1>2. mods \in [Modules -> Assessments] /\ \A m \in Modules : Sound(mods[m], m)
  BY UnassessedSound DEF Init, DetectorInit, Sound
<1>3. LossRaises
  BY DEF Init, DetectorInit, LossRaises, Unassessed, Down
<1>4. cond \in [Modules -> Answers] /\ linked \in BOOLEAN
  BY DEF Init, DetectorInit
<1>5. 0 \in 0 .. Delay /\ 0 \in 0 .. MinStay /\ 0 \in 0 .. MaxCalls /\ NORMAL \in Levels
  BY ResponseAssumption, LevelNumbers
<1>6. resp \in Responses /\ ~resp.moving /\ calls \in 0 .. MaxCalls
  BY <1>5 DEF Init, AtRest, Responses
<1> QED
  BY <1>1, <1>2, <1>3, <1>4, <1>6 DEF IInv, DetectorInv, ResponseInv, Patient

LEMMA SpecInv == Spec => []IInv
<1>1. Init => IInv
  BY InvInit
<1>2. IInv /\ [Next]_vars => IInv'
  BY StepInv
<1> QED
  BY <1>1, <1>2, PTL DEF Spec
---------------------------------------------------------------------------------------
(* The detector and the response keep their types, for any modules, times and requests.    *)
THEOREM ResponseTypeCorrect == Spec => []TypeOK
<1>1. IInv => TypeOK
  <2> SUFFICES ASSUME IInv PROVE TypeOK
    OBVIOUS
  <2>1. \A m \in Modules : mods[m].failures <= Config[m].threshold
    BY DEF IInv, DetectorInv, Sound
  <2>2. DetectorTypeOK
    BY <2>1 DEF IInv, DetectorInv, DetectorTypeOK, Detectors, Assessments
  <2> QED
    BY <2>2 DEF IInv, ResponseInv, TypeOK, Responses
<1> QED
  BY SpecInv, <1>1, PTL

(* A module recorded as offline has been silent for longer than its timeout, whatever      *)
(* answers, restarts and recoveries came before.                                          *)
THEOREM OfflineWasUnseen == Spec => []OfflineIsUnseen
<1>1. IInv => OfflineIsUnseen
  BY DEF IInv, DetectorInv, OfflineIsUnseen, Sound
<1> QED
  BY SpecInv, <1>1, PTL

(* No mixture of the assessments of the other modules takes the system out of EMERGENCY    *)
(* while a critical module is failed or offline.                                          *)
THEOREM LossHolds == Spec => []LossIsEmergency
<1>1. IInv => LossIsEmergency
  BY DEF IInv, DetectorInv, LossRaises, LossIsEmergency, Vital
<1> QED
  BY SpecInv, <1>1, PTL

(* The response does not come down before its minimum stay, however the system's level      *)
(* moves while a transition is under way.                                                 *)
THEOREM DescentIsSlow == Spec => SlowDescent
<1>1. IInv /\ [Next]_vars
        => [calls = 0 /\ resp'.level < resp.level /\ resp'.mode = "active"
              => resp.stayed >= MinStay]_vars
  BY StepInv
<1> QED
  BY SpecInv, <1>1, PTL DEF Spec, SlowDescent

(* What the loss of a critical module leaves behind: the count of the last check.         *)
CriticalLoss == \E m \in Modules : Down(mods[m]) /\ Config[m].critical
LossCounted  == CriticalLoss => det.lost

LEMMA LossCounts == Spec => []LossCounted
<1>1. Init => LossCounted
  BY DEF Init, DetectorInit, LossCounted, CriticalLoss, Down, Unassessed
<1>2. ASSUME IInv, LossCounted, [Next]_vars
      PROVE  LossCounted'
  <2>0. det \in Detectors /\ mods \in [Modules -> Assessments] /\ \A m \in Modules : Sound(mods[m], m)
    BY <1>2 DEF IInv, DetectorInv
  <2>1. CASE UNCHANGED <<mods, det>>
    BY <1>2, <2>1 DEF LossCounted, CriticalLoss
  <2>2. CASE Check
    <3> DEFINE judged == [m \in Modules |-> Checked(m)]
    <3>1. mods' = judged /\ det'.lost = Counted(judged).lost
      BY <2>0, <2>2 DEF Check, Counted, Detectors
    <3>2. Counted(judged).lost <=> \E m \in Modules : Down(judged[m]) /\ Config[m].critical
      BY <2>0 DEF Counted, Detectors
    <3> HIDE DEF judged
    <3> QED
      BY <3>1, <3>2 DEF LossCounted, CriticalLoss, Down
  <2>3. CASE InitDetector
    BY <2>3 DEF InitDetector, LossCounted, CriticalLoss, Down, Unassessed
  <2>4. CASE StartDetector \/ StopDetector \/ DeinitDetector
    <3>1. mods' = mods /\ det'.lost = det.lost
      BY <2>0, <2>4 DEF StartDetector, StopDetector, DeinitDetector, SetMode, Detectors
    <3> QED
      BY <1>2, <3>1 DEF LossCounted, CriticalLoss
  <2>5. CASE Recover
    <3>1. PICK m \in Modules : HandleRecovery(m)
      BY <2>5 DEF Recover
    <3>2. \A k \in Modules : Down(mods'[k]) => Down(mods[k])
      BY <2>0, <3>1 DEF HandleRecovery, Down, Assessments
    <3> QED
      BY <1>2, <3>1, <3>2 DEF LossCounted, CriticalLoss, HandleRecovery
  <2>6. CASE Tick
    <3>1. \A m \in Modules : mods'[m].health = mods[m].health
      BY <2>0, <2>6, OlderSound DEF Tick
    <3> QED
      BY <1>2, <2>6, <3>1 DEF LossCounted, CriticalLoss, Down, Tick
  <2> QED
    BY <1>2, <2>1, <2>2, <2>3, <2>4, <2>5, <2>6
       DEF Next, Detector, Outside, Link, Unlink, Change, InitResponse, StartResponse, Update,
           StopResponse, DeinitResponse, SetResponseMode, SetLevel, vars, detVars
<1> QED
  BY SpecInv, <1>1, <1>2, PTL DEF Spec

(* How many ticks and updates lie between a response and EMERGENCY: the rest of the        *)
(* transition under way and its end, and a whole transition if that one goes elsewhere.    *)
Remaining(r) ==
  IF r.moving
  THEN (Delay - r.waited) + (IF r.target = EMERGENCY THEN 1 ELSE Delay + 2)
  ELSE IF r.level = EMERGENCY THEN 0 ELSE Delay + 2

(* No step leads further away, and each one that the transition waits for leads nearer.    *)
ComesNearer ==
  /\ Remaining(resp') <= Remaining(resp)
  /\ Update /\ Remaining(resp) # 0 /\ (resp.moving => resp.waited >= Delay)
       => Remaining(resp') < Remaining(resp)
  /\ Tick /\ resp.moving /\ resp.waited < Delay => Remaining(resp') < Remaining(resp)

(* While a critical module is lost, the response comes no step further from EMERGENCY,      *)
(* also where it was on its way down, and every tick of a transition, and every update      *)
(* that has something to do, brings it nearer.                                             *)
(* (graduated_response_update, graduated_response_handle_auto_recovery)                    *)
LossClimbs == [][CriticalLoss /\ resp.mode = "active" /\ calls' = calls => ComesNearer]_vars

LEMMA UpdateClimbs ==
  ASSUME IInv, LossCounted, CriticalLoss, Update
  PROVE  /\ Remaining(resp') <= Remaining(resp)
         /\ Remaining(resp) # 0 /\ (resp.moving => resp.waited >= Delay)
              => Remaining(resp') < Remaining(resp)
<1> DEFINE r == Settled(resp)
<1>1. /\ resp \in Responses /\ Delay \in Nat /\ EMERGENCY = 4 /\ Levels = 0 .. 4
      /\ resp' = IF r.moving THEN r ELSE Followed(r, Determined(det, mods))
  BY ResponseTimes, LevelNumbers DEF IInv, ResponseInv, Update
<1>2. Determined(det, mods) = EMERGENCY
  <2>1. \A m \in Modules : mods[m].level \in Levels
    BY DEF IInv, DetectorInv, Assessments
  <2> QED
    BY <2>1, DeterminedType DEF LossCounted
<1>t. resp.level \in 0 .. 4 /\ resp.target \in 0 .. 4 /\ resp.waited \in 0 .. Delay
  BY <1>1 DEF Responses
<1>3. CASE resp.moving /\ resp.waited < Delay
  <2>1. r = resp
    BY <1>1, <1>3, <1>t DEF Settled
  <2>2. resp' = resp
    BY <1>1, <1>3, <2>1
  <2>3. Remaining(resp) \in Int
    BY <1>1, <1>t DEF Remaining
  <2> QED
    BY <1>1, <1>3, <1>t, <2>2, <2>3
<1>4. CASE ~(resp.moving /\ resp.waited < Delay)
  <2>1. /\ r \in Responses /\ ~r.moving
        /\ resp.moving => r.level = resp.target /\ resp.waited = Delay
        /\ ~resp.moving => r = resp
    <3>1. CASE resp.moving
      <4>1. resp.waited = Delay
        BY <1>1, <1>4, <1>t, <3>1
      <4>2. r = [resp EXCEPT !.moving = FALSE, !.level = resp.target, !.waited = 0, !.stayed = 0]
        BY <1>1, <3>1, <4>1 DEF Settled
      <4>3. r.level = resp.target /\ ~r.moving
        BY <1>1, <4>2 DEF Responses
      <4> QED
        BY <1>1, <3>1, <4>1, <4>3, SettledType
    <3>2. CASE ~resp.moving
      <4>1. r = resp
        BY <3>2 DEF Settled
      <4> QED
        BY <1>1, <3>2, <4>1
    <3> QED
      BY <3>1, <3>2
  <2> HIDE DEF r
  <2>2. r.level \in 0 .. 4
    BY <1>1, <2>1 DEF Responses
  <2>3. resp' = LevelSet(r, EMERGENCY)
    BY <1>1, <1>2, <2>1, <2>2 DEF Followed
  <2>4. Remaining(resp') = IF r.level = EMERGENCY THEN 0 ELSE Delay + 1
    <3>1. CASE r.level = EMERGENCY
      BY <2>1, <2>3, <3>1 DEF LevelSet, Remaining
    <3>2. CASE r.level # EMERGENCY
      <4>1. resp' = [r EXCEPT !.moving = TRUE, !.target = EMERGENCY, !.waited = 0]
        BY <2>3, <3>2 DEF LevelSet
      <4>2. resp'.moving /\ resp'.target = EMERGENCY /\ resp'.waited = 0
        BY <2>1, <4>1 DEF Responses
      <4> QED
        BY <1>1, <3>2, <4>2 DEF Remaining
    <3> QED
      BY <3>1, <3>2
  <2>5. CASE resp.moving
    <3>1. Remaining(resp) = IF resp.target = EMERGENCY THEN 1 ELSE Delay + 2
      BY <1>1, <2>1, <2>5 DEF Remaining
    <3> QED
      BY <1>1, <2>1, <2>4, <2>5, <3>1
  <2>6. CASE ~resp.moving
    <3>1. Remaining(resp) = IF resp.level = EMERGENCY THEN 0 ELSE Delay + 2
      BY <2>6 DEF Remaining
    <3> QED
      BY <1>1, <2>1, <2>4, <2>6, <3>1
  <2> QED
    BY <2>5, <2>6
<1> QED
  BY <1>3, <1>4

LEMMA TickClimbs ==
  ASSUME IInv, Tick
  PROVE  /\ Remaining(resp') <= Remaining(resp)
         /\ resp.moving /\ resp.waited < Delay => Remaining(resp') < Remaining(resp)
<1> DEFINE waited == IF resp.moving THEN Capped(resp.waited, Delay) ELSE resp.waited
           stayed == Capped(resp.stayed, MinStay)
<1>1. /\ resp \in Responses /\ resp.waited \in 0 .. Delay /\ Delay \in Nat /\ EMERGENCY = 4
  BY ResponseTimes, LevelNumbers DEF IInv, ResponseInv, Responses
<1>2. /\ waited \in 0 .. Delay /\ waited >= resp.waited
      /\ resp.moving /\ resp.waited < Delay => waited > resp.waited
  BY <1>1 DEF Capped
<1>3. resp' = [resp EXCEPT !.waited = waited, !.stayed = stayed]
  BY DEF Tick
<1> HIDE DEF waited, stayed
<1>4. /\ resp'.waited = waited /\ resp'.moving = resp.moving
      /\ resp'.target = resp.target /\ resp'.level = resp.level
  BY <1>1, <1>3 DEF Responses
<1>5. CASE resp.moving
  <2> DEFINE rest == IF resp.target = EMERGENCY THEN 1 ELSE Delay + 2
  <2>1. Remaining(resp) = (Delay - resp.waited) + rest /\ Remaining(resp') = (Delay - waited) + rest
    BY <1>4, <1>5 DEF Remaining
  <2>2. rest \in Int
    BY <1>1
  <2> HIDE DEF rest
  <2> QED
    BY <1>1, <1>2, <2>1, <2>2
<1>6. CASE ~resp.moving
  <2>1. Remaining(resp') = Remaining(resp) /\ Remaining(resp) \in Int
    BY <1>1, <1>4, <1>6 DEF Remaining
  <2> QED
    BY <1>6, <2>1
<1> QED
  BY <1>5, <1>6

(* The safety part of LossReachesResponse: no step but a call from outside leads away.     *)
THEOREM LossDrivesResponse == Spec => LossClimbs
<1>1. ASSUME IInv, LossCounted, [Next]_vars, CriticalLoss, resp.mode = "active", calls' = calls
      PROVE  ComesNearer
  <2>1. /\ resp \in Responses /\ calls \in Nat /\ Delay \in Nat
        /\ resp.level \in Levels /\ resp.target \in Levels /\ resp.waited \in 0 .. Delay
    <3>1. calls \in 0 .. MaxCalls /\ MaxCalls \in Nat
      BY <1>1, ResponseAssumption DEF IInv, ResponseInv
    <3>2. resp \in Responses
      BY <1>1 DEF IInv, ResponseInv
    <3> QED
      BY <3>1, <3>2, ResponseTimes DEF Responses
  <2>2. Remaining(resp) \in Int
    BY <2>1 DEF Remaining
  <2>3. CASE Update
    <3>1. Tick /\ resp.moving /\ resp.waited < Delay => Remaining(resp') < Remaining(resp)
      BY <1>1, TickClimbs
    <3>2. /\ Remaining(resp') <= Remaining(resp)
          /\ Remaining(resp) # 0 /\ (resp.moving => resp.waited >= Delay)
               => Remaining(resp') < Remaining(resp)
      BY <1>1, <2>3, UpdateClimbs
    <3> QED
      BY <3>1, <3>2 DEF ComesNearer
  <2>4. CASE Tick /\ ~Update
    BY <1>1, <2>4, TickClimbs DEF ComesNearer
  <2>5. CASE ~Update /\ ~Tick
    <3>1. resp' = resp
      BY <1>1, <2>1, <2>5 DEF Next, InitResponse, StartResponse, SetResponseMode, Outside, vars
    <3> QED
      BY <2>2, <2>5, <3>1 DEF ComesNearer
  <2> QED
    BY <2>3, <2>4, <2>5
<1>2. IInv /\ LossCounted /\ [Next]_vars
        => [CriticalLoss /\ resp.mode = "active" /\ calls' = calls => ComesNearer]_vars
  BY <1>1
<1> QED
  BY <1>2, SpecInv, LossCounts, PTL DEF Spec, LossClimbs
--------------------------------------------------------------------------------------
(* ModuleScan                                                                            *)

Breakers  == [failures : 0 .. MaxFailures, cooldown : 0 .. MaxCooldown]
ScanSteps == {"boot", "idle", "gate", "wait", "probe", "backoff", "found", "missed", "gap"}
Places    == [step : ScanSteps, i : 0 .. Len(ScanRange) + 1, try : 0 .. Probes]

LEMMA Bounds ==
  /\ OfflineAfter \in Nat /\ FailThreshold \in Nat /\ MaxCooldown \in Nat /\ MaxFailures \in Nat
  /\ Len(ScanRange) \in Nat /\ Probes \in Nat /\ Probes >= 1
  /\ Len(DiscoveryRange) \in Nat
<1>1. {OfflineAfter, FailThreshold, BaseCooldown, MaxCooldown, MaxFailures} \subseteq Nat
  BY ManagerAssumption
<1>2. DiscoveryRange \in Seq(Addresses) /\ ScanRange \in Seq(Addresses)
  BY ManagerAssumption, ScanAssumption
<1> QED
  BY <1>1, <1>2, ScanAssumption

(* Discovery visits managed addresses.                                                   *)
LEMMA Visited ==
  ASSUME NEW i \in 0 .. Len(DiscoveryRange) - 1
  PROVE  DiscoveryRange[i + 1] \in Managed
<1>1. DiscoveryRange \in Seq(Addresses)
  BY ManagerAssumption
<1>2. i + 1 \in DOMAIN DiscoveryRange
  BY <1>1
<1> QED
  BY <1>2 DEF Managed, Range

LEMMA LesserType ==
  ASSUME NEW m \in Nat, NEW n \in Nat
  PROVE  Lesser(m, n) \in 0 .. n /\ (m <= n => Lesser(m, n) = m)
  BY DEF Lesser

(* The cooldown of any count that reached the threshold is capped.                       *)
LEMMA CooldownType ==
  ASSUME NEW failures \in 0 .. MaxFailures, failures >= FailThreshold
  PROVE  Cooldown(failures) \in 0 .. MaxCooldown
<1> DEFINE k == Doublings(failures)
           shifted == BaseCooldown * 2^k
<1>1. k \in 0 .. MaxDoublings
  <2>1. failures - FailThreshold \in Nat /\ MaxDoublings \in Nat
    BY Bounds DEF MaxDoublings
  <2> QED
    BY <2>1, LesserType DEF Doublings
<1> HIDE DEF k
<1>2. shifted \in Nat
  BY <1>1, ShiftAssumption, Zenon
<1>3. Cooldown(failures) = Lesser(shifted, MaxCooldown)
  BY DEF Cooldown, k
<1> HIDE DEF shifted
<1> QED
  BY <1>2, <1>3, Bounds, LesserType

LEMMA FailedFacts ==
  ASSUME NEW b \in Breakers, b.cooldown > 0 => b.failures >= FailThreshold
  PROVE  /\ Failed(b) \in Breakers
         /\ Failed(b).cooldown > 0 => Failed(b).failures >= FailThreshold
<1> DEFINE n == Lesser(b.failures + 1, MaxFailures)
           c == IF n >= FailThreshold THEN Cooldown(n) ELSE b.cooldown
<1>1. b.failures \in 0 .. MaxFailures /\ b.cooldown \in 0 .. MaxCooldown
  BY DEF Breakers
<1>2. n \in 0 .. MaxFailures /\ n >= b.failures
  BY <1>1, Bounds DEF Lesser
<1> HIDE DEF n
<1>3. c \in 0 .. MaxCooldown /\ (c > 0 => n >= FailThreshold)
  BY <1>1, <1>2, Bounds, CooldownType
<1>4. Failed(b) = [failures |-> n, cooldown |-> c]
  BY DEF Failed, n
<1> HIDE DEF c
<1> QED
  BY <1>2, <1>3, <1>4 DEF Breakers

LEMMA MarkedType ==
  ASSUME NEW reg \in [Addresses -> Statuses], NEW a
  PROVE  /\ MarkOnline(reg, a) \in [Addresses -> Statuses]
         /\ MarkOffline(reg, a) \in [Addresses -> Statuses]
         /\ \A b \in Addresses : reg[b] = "online" => MarkOnline(reg, a)[b] = "online"
         /\ \A b \in Addresses : b # a => MarkOffline(reg, a)[b] = reg[b]
<1>1. "online" \in Statuses /\ "offline" \in Statuses
  BY DEF Statuses
<1> QED
  BY <1>1 DEF MarkOnline, MarkOffline, AddOrUpdate
--------------------------------------------------------------------------------------
(* What the manager's tables hold: their types, and cooldowns only of addresses that      *)
(* failed often enough.                                                                  *)
ManagerSound ==
  /\ replies \in [Addresses -> Replies]
  /\ registry \in [Addresses -> Statuses]
  /\ entry \in [Managed -> Entries]
  /\ age \in [Managed -> 0 .. OfflineAfter + 1]
  /\ breaker \in [Managed -> Breakers]
  /\ discovery \in -1 .. Len(DiscoveryRange)
  /\ \A a \in Managed : breaker[a].cooldown > 0 => breaker[a].failures >= FailThreshold

(* Where a scan may be: at one of its addresses whenever it asks for one.                 *)
Placed(place) ==
  /\ place \in Places
  /\ place.step = "gate" => place.i >= 1
  /\ place.step \notin {"boot", "idle", "gate"} => place.i \in 1 .. Len(ScanRange)

ScanSound ==
  /\ scan \in [Scanners -> Places] /\ \A s \in Scanners : Placed(scan[s])
  /\ scanning \in BOOLEAN /\ interrupted \in BOOLEAN /\ paused \in BOOLEAN

BusInv == ManagerSound /\ ScanSound

LEMMA BusInvType == BusInv => BusTypeOK
  BY DEF BusInv, ManagerSound, ScanSound, BusTypeOK, Places, ScanSteps, Breakers

LEMMA ManagerInitSound == ManagerInit => ManagerSound
<1> SUFFICES ASSUME ManagerInit PROVE ManagerSound
  OBVIOUS
<1>1. Closed \in Breakers /\ ~(Closed.cooldown > 0)
  BY Bounds DEF Closed, Breakers
<1>2. registry \in [Addresses -> Statuses] /\ entry \in [Managed -> Entries]
  BY DEF ManagerInit, Cleared, Statuses, Entries
<1>3. 0 \in 0 .. OfflineAfter + 1 /\ -1 \in -1 .. Len(DiscoveryRange)
  BY Bounds
<1> QED
  BY <1>1, <1>2, <1>3 DEF ManagerInit, ManagerSound

LEMMA DiscoverSound ==
  ASSUME ManagerSound, Discover
  PROVE  ManagerSound'
<1> DEFINE a == DiscoveryRange[discovery + 1]
<1>1. a \in Managed /\ discovery' \in -1 .. Len(DiscoveryRange)
  BY Bounds, Visited DEF Discover, ManagerSound
<1> HIDE DEF a
<1>2. \/ UNCHANGED <<registry, entry, age, breaker>>
      \/ Discovered(a)
      \/ breaker' = [breaker EXCEPT ![a] = Failed(@)] /\ UNCHANGED <<registry, entry, age>>
  BY DEF Discover, a
<1>3. replies' = replies
  BY DEF Discover
<1>4. CASE UNCHANGED <<registry, entry, age, breaker>>
  BY <1>1, <1>3, <1>4 DEF ManagerSound
<1>5. CASE Discovered(a)
  <2>1. registry' \in [Addresses -> Statuses]
    BY <1>5, MarkedType DEF Discovered, ManagerSound
  <2>2. entry' \in [Managed -> Entries]
    BY <1>5 DEF Discovered, ManagerSound, Entries
  <2>3. 0 \in 0 .. OfflineAfter + 1
    BY Bounds
  <2>4. age' \in [Managed -> 0 .. OfflineAfter + 1]
    BY <1>1, <1>5, <2>3 DEF Discovered, ManagerSound
  <2>5. Closed \in Breakers /\ ~(Closed.cooldown > 0)
    BY Bounds DEF Closed, Breakers
  <2>6. /\ breaker' \in [Managed -> Breakers]
        /\ \A b \in Managed : breaker'[b].cooldown > 0 => breaker'[b].failures >= FailThreshold
    BY <1>1, <1>5, <2>5 DEF Discovered, ManagerSound
  <2> QED
    BY <1>1, <1>3, <2>1, <2>2, <2>4, <2>6 DEF ManagerSound
<1>6. CASE breaker' = [breaker EXCEPT ![a] = Failed(@)] /\ UNCHANGED <<registry, entry, age>>
  <2>1. /\ Failed(breaker[a]) \in Breakers
        /\ Failed(breaker[a]).cooldown > 0 => Failed(breaker[a]).failures >= FailThreshold
    BY <1>1, FailedFacts DEF ManagerSound
  <2> HIDE DEF Failed
  <2>2. /\ breaker' \in [Managed -> Breakers]
        /\ \A b \in Managed : breaker'[b].cooldown > 0 => breaker'[b].failures >= FailThreshold
    BY <1>1, <1>6, <2>1 DEF ManagerSound
  <2> QED
    BY <1>1, <1>3, <1>6, <2>2 DEF ManagerSound
<1> QED
  BY <1>2, <1>4, <1>5, <1>6

LEMMA CheckOfflineSound ==
  ASSUME ManagerSound, CheckOffline
  PROVE  ManagerSound'
<1>1. registry' \in [Addresses -> Statuses]
  BY MarkedType DEF CheckOffline, ManagerSound
<1>2. entry' \in [Managed -> Entries]
  BY DEF CheckOffline, ManagerSound, Entries
<1>3. discovery' \in -1 .. Len(DiscoveryRange)
  BY Bounds DEF CheckOffline
<1> QED
  BY <1>1, <1>2, <1>3 DEF CheckOffline, ManagerSound

LEMMA ClockTickSound ==
  ASSUME ManagerSound, ClockTick
  PROVE  ManagerSound'
<1> DEFINE top == OfflineAfter + 1
           cooled(b) == [b EXCEPT !.cooldown = IF @ > 0 THEN @ - 1 ELSE 0]
<1>1. \A m \in 0 .. top : Lesser(m + 1, top) \in 0 .. top
  BY Bounds DEF Lesser
<1>2. age' \in [Managed -> 0 .. top]
  BY <1>1, Bounds DEF ClockTick, ManagerSound
<1>3. ASSUME NEW b \in Breakers, b.cooldown > 0 => b.failures >= FailThreshold
      PROVE  /\ cooled(b) \in Breakers
             /\ cooled(b).cooldown > 0 => cooled(b).failures >= FailThreshold
  <2>1. b.cooldown \in 0 .. MaxCooldown /\ b.failures \in 0 .. MaxFailures
    BY DEF Breakers
  <2>2. cooled(b).failures = b.failures
    BY DEF Breakers
  <2>3. cooled(b).cooldown = IF b.cooldown > 0 THEN b.cooldown - 1 ELSE 0
    BY DEF Breakers
  <2>4. cooled(b).cooldown \in 0 .. MaxCooldown
    BY <2>1, <2>3, Bounds
  <2>5. cooled(b) \in Breakers
    BY <2>1, <2>3, <2>4 DEF Breakers
  <2> QED
    BY <1>3, <2>1, <2>2, <2>3, <2>5
<1>4. breaker' = [a \in Managed |-> cooled(breaker[a])]
  BY DEF ClockTick
<1> HIDE DEF cooled
<1>5. /\ breaker' \in [Managed -> Breakers]
      /\ \A a \in Managed : breaker'[a].cooldown > 0 => breaker'[a].failures >= FailThreshold
  BY <1>3, <1>4 DEF ManagerSound
<1> QED
  BY <1>2, <1>5 DEF ClockTick, ManagerSound

LEMMA HealthCheckSound ==
  ASSUME ManagerSound, NEW a \in Managed, HealthCheck(a)
  PROVE  ManagerSound'
<1>1. 0 \in 0 .. OfflineAfter + 1
  BY Bounds
<1>2. entry' \in [Managed -> Entries]
  BY DEF HealthCheck, ManagerSound, Entries
<1>3. age' \in [Managed -> 0 .. OfflineAfter + 1]
  BY <1>1 DEF HealthCheck, ManagerSound
<1> QED
  BY <1>2, <1>3 DEF HealthCheck, ManagerSound

LEMMA ManagerNextSound ==
  ASSUME ManagerSound, ManagerNext
  PROVE  ManagerSound'
<1>1. CASE StartDiscovery
  <2>1. discovery' \in -1 .. Len(DiscoveryRange)
    BY <1>1, Bounds DEF StartDiscovery
  <2> QED
    BY <1>1, <2>1 DEF StartDiscovery, ManagerSound
<1>2. CASE Discover
  BY <1>2, DiscoverSound
<1>3. CASE CheckOffline
  BY <1>3, CheckOfflineSound
<1>4. CASE ResetManager
  BY <1>4 DEF ResetManager, ManagerSound, Entries
<1>5. CASE ModulesChange
  BY <1>5 DEF ModulesChange, ManagerSound
<1>6. CASE ClockTick
  BY <1>6, ClockTickSound
<1>7. ASSUME NEW a \in Managed, HealthCheck(a) \/ Unregister(a)
      PROVE  ManagerSound'
  <2>1. CASE HealthCheck(a)
    BY <2>1, HealthCheckSound
  <2>2. CASE Unregister(a)
    BY <2>2 DEF Unregister, ManagerSound, Entries
  <2> QED
    BY <1>7, <2>1, <2>2
<1> QED
  BY <1>1, <1>2, <1>3, <1>4, <1>5, <1>6, <1>7 DEF ManagerNext, ManagerCalls
--------------------------------------------------------------------------------------
LEMMA AtType ==
  ASSUME NEW step \in ScanSteps, NEW i \in 0 .. Len(ScanRange) + 1, NEW try \in 0 .. Probes
  PROVE  /\ At(step, i, try) \in Places /\ At(step, i, try).step = step
         /\ At(step, i, try).i = i /\ At(step, i, try).try = try
  BY DEF At, Places

LEMMA RestType == /\ Placed(Idle) /\ Idle.step = "idle"
                  /\ Placed(Boot) /\ Boot.step = "boot"
<1>1. "idle" \in ScanSteps /\ "boot" \in ScanSteps
  BY DEF ScanSteps
<1> QED
  BY <1>1, Bounds, AtType DEF Idle, Boot, Placed

(* A scan that moves to a place of its range leaves the other where it was.               *)
LEMMA MovesSound ==
  ASSUME ScanSound, NEW s \in Scanners, NEW place, Placed(place), Moves(s, place),
         scanning' \in BOOLEAN, interrupted' \in BOOLEAN, paused' \in BOOLEAN
  PROVE  ScanSound'
<1>1. place \in Places /\ scan' = [scan EXCEPT ![s] = place]
  BY DEF Placed, Moves
<1>2. scan' \in [Scanners -> Places]
  BY <1>1 DEF ScanSound
<1>3. \A t \in Scanners : scan'[t] = IF t = s THEN place ELSE scan[t]
  BY <1>1 DEF ScanSound
<1>4. \A t \in Scanners : Placed(scan'[t])
  BY <1>3 DEF ScanSound
<1> QED
  BY <1>2, <1>4 DEF ScanSound, Placed

(* Each step of a scan goes to a place of its range.                                     *)
LEMMA StepsPlaced ==
  ASSUME ScanSound, NEW s \in Scanners, Begin(s) \/ Scan(s)
  PROVE  \E place : Placed(place) /\ Moves(s, place)
<1> USE Bounds
<1> DEFINE here == scan[s]
<1>1. /\ here.i \in 0 .. Len(ScanRange) + 1 /\ here.try \in 0 .. Probes /\ here.step \in ScanSteps
      /\ here.step = "gate" => here.i >= 1
      /\ here.step \notin {"boot", "idle", "gate"} => here.i \in 1 .. Len(ScanRange)
  BY DEF ScanSound, Placed, Places
<1>2. ScanSteps = {"boot", "idle", "gate", "wait", "probe", "backoff", "found", "missed", "gap"}
  BY DEF ScanSteps
<1>3. ASSUME NEW step \in ScanSteps, NEW try \in 0 .. Probes, here.i \in 1 .. Len(ScanRange)
      PROVE  Placed(At(step, here.i, try))
  BY <1>3, AtType DEF Placed
<1>4. CASE Begin(s)
  <2>1. Placed(At("gate", 1, 0))
    BY <1>2, AtType DEF Placed
  <2> QED
    BY <1>4, <2>1 DEF Begin
<1>5. CASE Gate(s)
  <2>1. Moves(s, Idle) \/ (here.i <= Len(ScanRange) /\ Moves(s, At("wait", here.i, 0)))
    BY <1>1, <1>5 DEF Gate
  <2>2. here.i >= 1
    BY <1>1, <1>5 DEF Gate
  <2>3. here.i <= Len(ScanRange) => Placed(At("wait", here.i, 0))
    BY <1>1, <1>2, <1>3, <2>2
  <2> QED
    BY <2>1, <2>3, RestType
<1>6. CASE Wait(s) \/ Probe(s) \/ Backoff(s) \/ Found(s) \/ NotFound(s)
  <2>1. here.i \in 1 .. Len(ScanRange)
    BY <1>1, <1>6 DEF Wait, Probe, Backoff, Found, NotFound
  <2>2. \E step \in ScanSteps, try \in 0 .. Probes : Moves(s, At(step, here.i, try))
    BY <1>1, <1>2, <1>6 DEF Wait, Probe, Backoff, Found, NotFound
  <2> QED
    BY <1>3, <2>1, <2>2
<1>7. CASE Gap(s)
  <2>1. here.i \in 1 .. Len(ScanRange)
    BY <1>1, <1>7 DEF Gap
  <2>2. Placed(At("gate", here.i + 1, 0))
    <3> DEFINE next == here.i + 1
    <3>1. next \in 0 .. Len(ScanRange) + 1 /\ next >= 1 /\ 0 \in 0 .. Probes /\ "gate" \in ScanSteps
      BY <1>2, <2>1
    <3> HIDE DEF next
    <3>2. At("gate", next, 0) \in Places /\ At("gate", next, 0).step = "gate"
          /\ At("gate", next, 0).i = next
      BY <3>1, AtType
    <3>3. Placed(At("gate", next, 0))
      BY <3>1, <3>2 DEF Placed
    <3> QED
      BY <3>3 DEF next
  <2> QED
    BY <1>7, <2>2 DEF Gap
<1> QED
  BY <1>4, <1>5, <1>6, <1>7 DEF Scan

LEMMA ScanNextSound ==
  ASSUME BusInv, NEW s \in Scanners, Begin(s) \/ Scan(s)
  PROVE  BusInv'
<1>1. scanning' \in BOOLEAN /\ interrupted' \in BOOLEAN /\ paused' \in BOOLEAN
  BY DEF Begin, Scan, Gate, Wait, Probe, Backoff, Found, NotFound, Gap, BusInv, ScanSound
<1>2. ScanSound'
  BY <1>1, StepsPlaced, MovesSound DEF BusInv
<1>3. ManagerSound'
  <2>1. CASE UNCHANGED managerVars
    BY <2>1 DEF managerVars, BusInv, ManagerSound
  <2>2. CASE Found(s) \/ NotFound(s)
    <3>1. UNCHANGED <<replies, entry, age, breaker, discovery>>
      BY <2>2 DEF Found, NotFound
    <3>2. registry' = MarkOnline(registry, Probed(s)) \/ registry' = registry
      BY <2>2 DEF Found, NotFound
    <3>3. registry' \in [Addresses -> Statuses]
      BY <3>2, MarkedType DEF BusInv, ManagerSound
    <3> QED
      BY <3>1, <3>3 DEF BusInv, ManagerSound
  <2> QED
    BY <2>1, <2>2 DEF Begin, Scan, Gate, Wait, Probe, Backoff, Gap
<1> QED
  BY <1>2, <1>3 DEF BusInv

LEMMA BusInductive ==
  ASSUME BusInv, [BusNext]_busVars
  PROVE  BusInv'
<1>1. ASSUME NEW s \in Scanners, Begin(s) \/ Scan(s)
      PROVE  BusInv'
  BY <1>1, ScanNextSound
<1>2. CASE StopScanning \/ PauseScanning \/ ResumeScanning
  <2>1. scan' = scan /\ scanning' \in BOOLEAN /\ interrupted' \in BOOLEAN /\ paused' \in BOOLEAN
    BY <1>2 DEF StopScanning, PauseScanning, ResumeScanning, BusInv, ScanSound
  <2>2. UNCHANGED managerVars
    BY <1>2 DEF StopScanning, PauseScanning, ResumeScanning
  <2> QED
    BY <2>1, <2>2 DEF BusInv, ManagerSound, ScanSound, Placed, managerVars
<1>3. CASE ResetModules
  <2>1. registry' \in [Addresses -> Statuses]
    BY <1>3 DEF ResetModules, Cleared, Statuses
  <2> QED
    BY <1>3, <2>1 DEF ResetModules, BusInv, ManagerSound, ScanSound, Placed
<1>4. CASE ManagerNext /\ UNCHANGED scanVars
  <2>1. ManagerSound'
    BY <1>4, ManagerNextSound DEF BusInv
  <2> QED
    BY <1>4, <2>1 DEF BusInv, ScanSound, Placed, scanVars
<1>5. CASE UNCHANGED busVars
  BY <1>5 DEF busVars, managerVars, scanVars, BusInv, ManagerSound, ScanSound, Placed
<1> QED
  BY <1>1, <1>2, <1>3, <1>4, <1>5 DEF BusNext, Served, ManagerNext

LEMMA BusInvariant == BusSpec => []BusInv
<1>1. ScanInit => BusInv
  <2> SUFFICES ASSUME ScanInit PROVE BusInv
    OBVIOUS
  <2>1. ManagerSound
    BY ManagerInitSound DEF ScanInit
  <2>2. Placed(Idle) /\ Placed(Boot)
    BY RestType
  <2>3. Idle \in Places /\ Boot \in Places
    BY <2>2 DEF Placed
  <2> HIDE DEF Placed
  <2> QED
    BY <2>1, <2>2, <2>3 DEF ScanInit, BusInv, ScanSound
<1> QED
  BY <1>1, BusInductive, PTL DEF BusSpec

(* The manager, the registry and the scan stay within their types, for any addresses,     *)
(* orders of discovery and scan, thresholds and cooldowns.                                *)
THEOREM BusTypeCorrect == BusSpec => []BusTypeOK
  BY BusInvariant, BusInvType, PTL

(* Discovery skips an address only after it failed to answer as often as the threshold     *)
(* asks, in a row: an answer closes its breaker.                                          *)
THEOREM SkippedHasFailed ==
  BusSpec => [](\A a \in Managed : breaker[a].cooldown > 0 => breaker[a].failures >= FailThreshold)
<1>1. BusInv => \A a \in Managed : breaker[a].cooldown > 0 => breaker[a].failures >= FailThreshold
  BY DEF BusInv, ManagerSound
<1> QED
  BY <1>1, BusInvariant, PTL

(* How many steps a scan at a place has left at its address at most.                      *)
StepsHere(p) == CASE p.step = "gate"    -> 2 * Probes + 4
                  [] p.step = "wait"    -> 2 * Probes + 3
                  [] p.step = "probe"   -> 2 * (Probes - p.try) + 4
                  [] p.step = "backoff" -> 2 * (Probes - p.try) + 5
                  [] p.step = "found"   -> 3
                  [] p.step = "missed"  -> 2
                  [] p.step = "gap"     -> 1
                  [] p.step \in {"boot", "idle"} -> 0

(* What the steps of one scan run down: each of them either ends it, or takes it to the   *)
(* next address, or leaves it fewer steps at this one.                                   *)
RunsDown(s) ==
  \/ ~Active(s)'
  \/ scan'[s].i = scan[s].i + 1
  \/ scan'[s].i = scan[s].i /\ StepsHere(scan'[s]) < StepsHere(scan[s])

(* The steps of a scan end it within its range, whatever answers and whatever the other   *)
(* thread starts, stops or pauses meanwhile: each runs down the ranking, no address is    *)
(* one after the end of the range, and no other step moves the scan.  A start of the     *)
(* other thread that takes a stop back lets the scan run on, no further than this.        *)
(* (comm_manager_scan_range)                                                             *)
ScanComesToEnd ==
  [][\A s \in Scanners :
       /\ Active(s) => /\ scan[s].i \in 1 .. Len(ScanRange) + 1
                       /\ StepsHere(scan[s]) \in 0 .. 2 * Probes + 5
       /\ Active(s) /\ scan'[s] # scan[s] => RunsDown(s)]_busVars

LEMMA StepsHereType ==
  ASSUME NEW p \in Places
  PROVE  StepsHere(p) \in 0 .. 2 * Probes + 5
<1>1. p.step \in ScanSteps /\ p.try \in 0 .. Probes /\ Probes \in Nat
  BY Bounds DEF Places
<1> QED
  BY <1>1 DEF StepsHere, ScanSteps

(* A step of an active scan runs its ranking down.                                       *)
LEMMA ScanRunsDown ==
  ASSUME BusInv, NEW s \in Scanners, Scan(s)
  PROVE  RunsDown(s)
<1> DEFINE here == scan[s]
<1>1. /\ here.i \in 0 .. Len(ScanRange) + 1 /\ here.try \in 0 .. Probes
      /\ Probes \in Nat /\ Probes >= 1 /\ Len(ScanRange) \in Nat
  BY Bounds DEF BusInv, ScanSound, Placed, Places
<1>2. \A place : Moves(s, place) => scan'[s] = place
  BY DEF Moves, BusInv, ScanSound
<1>3. CASE Gate(s)
  <2>1. CASE Moves(s, Idle)
    <3>1. scan'[s].step = "idle"
      BY <1>2, <2>1 DEF Idle, At
    <3> QED
      BY <3>1 DEF RunsDown, Active
  <2>2. CASE Moves(s, At("wait", here.i, 0))
    <3>1. StepsHere(here) = 2 * Probes + 4
      BY <1>3 DEF Gate, StepsHere
    <3>2. StepsHere(scan'[s]) = 2 * Probes + 3 /\ scan'[s].i = here.i
      BY <1>2, <2>2 DEF StepsHere, At
    <3> QED
      BY <1>1, <3>1, <3>2 DEF RunsDown
  <2> QED
    BY <1>3, <2>1, <2>2 DEF Gate
<1>4. CASE Wait(s)
  <2>1. StepsHere(here) = 2 * Probes + 3
    BY <1>4 DEF Wait, StepsHere
  <2>2. scan'[s] = At("missed", here.i, 0) \/ scan'[s] = At("probe", here.i, 1)
    BY <1>2, <1>4 DEF Wait
  <2>3. scan'[s].i = here.i /\ StepsHere(scan'[s]) \in {2, 2 * (Probes - 1) + 4}
    BY <2>2 DEF StepsHere, At
  <2> QED
    BY <1>1, <2>1, <2>3 DEF RunsDown
<1>5. CASE Probe(s)
  <2>1. StepsHere(here) = 2 * (Probes - here.try) + 4
    BY <1>5 DEF Probe, StepsHere
  <2>2. \/ scan'[s] = At("found", here.i, 0)
        \/ scan'[s] = At("missed", here.i, 0)
        \/ scan'[s] = At("backoff", here.i, here.try + 1)
    BY <1>2, <1>5 DEF Probe
  <2>3. CASE scan'[s] \in {At("found", here.i, 0), At("missed", here.i, 0)}
    <3>1. scan'[s].i = here.i /\ StepsHere(scan'[s]) \in {2, 3}
      BY <2>3 DEF StepsHere, At
    <3> QED
      BY <1>1, <2>1, <3>1 DEF RunsDown
  <2>4. CASE scan'[s] = At("backoff", here.i, here.try + 1)
    <3>1. scan'[s].i = here.i /\ StepsHere(scan'[s]) = 2 * (Probes - (here.try + 1)) + 5
      BY <2>4 DEF StepsHere, At
    <3> QED
      BY <1>1, <2>1, <3>1 DEF RunsDown
  <2> QED
    BY <2>2, <2>3, <2>4
<1>6. CASE Backoff(s)
  <2>1. StepsHere(here) = 2 * (Probes - here.try) + 5
    BY <1>6 DEF Backoff, StepsHere
  <2>2. scan'[s] = At("probe", here.i, here.try)
    BY <1>2, <1>6 DEF Backoff
  <2>3. scan'[s].i = here.i /\ StepsHere(scan'[s]) = 2 * (Probes - here.try) + 4
    BY <2>2 DEF StepsHere, At
  <2> QED
    BY <1>1, <2>1, <2>3 DEF RunsDown
<1>7. CASE Found(s) \/ NotFound(s)
  <2>1. here.step \in {"found", "missed"} /\ scan'[s] = At("gap", here.i, 0)
    BY <1>2, <1>7 DEF Found, NotFound
  <2>2. StepsHere(here) \in {2, 3} /\ StepsHere(scan'[s]) = 1 /\ scan'[s].i = here.i
    BY <2>1 DEF StepsHere, At
  <2> QED
    BY <2>2 DEF RunsDown
<1>8. CASE Gap(s)
  <2>1. scan'[s] = At("gate", here.i + 1, 0)
    BY <1>2, <1>8 DEF Gap
  <2>2. scan'[s].i = here.i + 1
    BY <2>1 DEF At
  <2> QED
    BY <2>2 DEF RunsDown
<1> QED
  BY <1>3, <1>4, <1>5, <1>6, <1>7, <1>8 DEF Scan

(* Every step of each scan runs down the ranking above, and no other step moves it.       *)
THEOREM ScansEnd == BusSpec => ScanComesToEnd
<1>1. ASSUME BusInv, NEW s \in Scanners, Active(s)
      PROVE  scan[s].i \in 1 .. Len(ScanRange) + 1 /\ StepsHere(scan[s]) \in 0 .. 2 * Probes + 5
  <2>1. scan[s] \in Places /\ Placed(scan[s])
    BY <1>1 DEF BusInv, ScanSound
  <2>2. scan[s].i \in 1 .. Len(ScanRange) + 1
    BY <1>1, <2>1, Bounds DEF Active, Placed, Places
  <2> QED
    BY <2>1, <2>2, StepsHereType
<1>2. ASSUME BusInv, [BusNext]_busVars, NEW s \in Scanners, Active(s), scan'[s] # scan[s]
      PROVE  RunsDown(s)
  <2>1. CASE Scan(s)
    BY <1>2, <2>1, ScanRunsDown
  <2>2. ASSUME NEW t \in Scanners, t # s, Begin(t) \/ Scan(t)
        PROVE  FALSE
    <3>1. \E place : Moves(t, place)
      BY <1>2, <2>2, StepsPlaced DEF BusInv
    <3>2. scan'[s] = scan[s]
      BY <1>2, <2>2, <3>1 DEF Moves, BusInv, ScanSound
    <3> QED
      BY <1>2, <3>2
  <2>3. CASE Begin(s)
    <3>1. scan[s] = Boot \/ scan[s] = Idle
      BY <2>3 DEF Begin, ApiFree, Scanners
    <3> QED
      BY <1>2, <3>1, RestType DEF Active
  <2>4. CASE UNCHANGED scan
    BY <1>2, <2>4
  <2> QED
    BY <1>2, <2>1, <2>2, <2>3, <2>4
       DEF BusNext, busVars, scanVars, StopScanning, PauseScanning, ResumeScanning, ResetModules, Served
<1>3. BusInv /\ [BusNext]_busVars =>
        [\A s \in Scanners :
           /\ Active(s) => /\ scan[s].i \in 1 .. Len(ScanRange) + 1
                           /\ StepsHere(scan[s]) \in 0 .. 2 * Probes + 5
           /\ Active(s) /\ scan'[s] # scan[s] => RunsDown(s)]_busVars
  BY <1>1, <1>2
<1> QED
  BY <1>3, BusInvariant, PTL DEF BusSpec, ScanComesToEnd

(* The entries of a table, and a table within its size.                                  *)
Known(reg)    == {b \in Addresses : reg[b] # "absent"}
TableFits(reg) == Cardinality(Known(reg)) <= MaxModules

LEMMA MarkFits ==
  ASSUME NEW reg \in [Addresses -> Statuses], NEW a, TableFits(reg)
  PROVE  TableFits(MarkOnline(reg, a)) /\ TableFits(MarkOffline(reg, a))
<1>1. IsFiniteSet(Known(reg)) /\ MaxModules \in Nat /\ Cardinality(Known(reg)) \in Nat
  <2>1. IsFiniteSet(Addresses) /\ Known(reg) \in SUBSET Addresses
    BY RegistryAssumption DEF Known
  <2>2. IsFiniteSet(Known(reg))
    BY <2>1, FS_Subset
  <2> QED
    BY <2>2, FS_CardinalityType, RegistryAssumption
<1>2. TableFits(MarkOffline(reg, a))
  <2>1. Known(MarkOffline(reg, a)) = Known(reg)
    BY DEF MarkOffline, Known
  <2> QED
    BY <2>1 DEF TableFits
<1>3. CASE MarkOnline(reg, a) = reg
  BY <1>2, <1>3
<1>4. CASE MarkOnline(reg, a) = [reg EXCEPT ![a] = "online"] /\ (reg[a] # "absent" \/ a \notin Addresses)
  <2>1. Known(MarkOnline(reg, a)) = Known(reg)
    BY <1>4 DEF Known
  <2> QED
    BY <1>2, <2>1 DEF TableFits
<1>5. CASE /\ MarkOnline(reg, a) = [reg EXCEPT ![a] = "online"] /\ reg[a] = "absent" /\ a \in Addresses
           /\ ~(Cardinality(Known(reg)) >= MaxModules)
  <2>1. Known(MarkOnline(reg, a)) = Known(reg) \cup {a} /\ a \notin Known(reg)
    BY <1>5 DEF Known
  <2>2. Cardinality(Known(reg) \cup {a}) = Cardinality(Known(reg)) + 1
    BY <1>1, <2>1, FS_AddElement
  <2>3. Cardinality(Known(reg)) + 1 <= MaxModules
    BY <1>1, <1>5
  <2>4. TableFits(MarkOnline(reg, a))
    BY <2>1, <2>2, <2>3 DEF TableFits
  <2> QED
    BY <1>2, <2>4
<1> QED
  BY <1>3, <1>4, <1>5 DEF MarkOnline, AddOrUpdate, Known

(* The table never holds more than its size, whichever of the scan and the discovery adds *)
(* to it and whatever marks, resets and verdicts come between.  (registry_add_or_update)  *)
TableNeverOverflows == TableFits(registry)

(* No sequence of scans, discoveries, resets and verdicts fills the table beyond its size. *)
THEOREM TableIsBounded == BusSpec => []TableNeverOverflows
<1>1. TableFits(Cleared)
  <2>1. Known(Cleared) = {}
    BY DEF Known, Cleared
  <2> QED
    BY <2>1, FS_EmptySet, RegistryAssumption DEF TableFits
<1>2. ASSUME BusInv, TableNeverOverflows, [BusNext]_busVars
      PROVE  TableNeverOverflows'
  <2> USE DEF TableNeverOverflows
  <2>1. registry \in [Addresses -> Statuses]
    BY <1>2 DEF BusInv, ManagerSound
  <2>2. CASE UNCHANGED registry \/ registry' = Cleared
    BY <1>1, <1>2, <2>2
  <2>3. ASSUME NEW a, registry' \in {MarkOnline(registry, a), MarkOffline(registry, a)}
        PROVE  TableFits(registry')
    BY <1>2, <2>1, <2>3, MarkFits
  <2>4. CASE CheckOffline
    <3>1. Known(registry') = Known(registry)
      BY <2>1, <2>4 DEF CheckOffline, Known, MarkOffline
    <3> QED
      BY <1>2, <3>1 DEF TableFits
  <2>5. CASE \E s \in Scanners : Begin(s) \/ Scan(s)
    BY <2>2, <2>3, <2>5
       DEF Begin, Scan, Gate, Wait, Probe, Backoff, Found, NotFound, Gap, managerVars
  <2>6. CASE Discover
    BY <2>2, <2>3, <2>6 DEF Discover, Discovered
  <2>7. CASE StartDiscovery \/ ResetManager \/ ModulesChange \/ ClockTick
             \/ \E a \in Managed : HealthCheck(a) \/ Unregister(a)
    BY <2>2, <2>7 DEF StartDiscovery, ResetManager, ModulesChange, ClockTick, HealthCheck, Unregister
  <2>8. CASE StopScanning \/ PauseScanning \/ ResumeScanning \/ ResetModules \/ UNCHANGED busVars
    BY <2>2, <2>8 DEF StopScanning, PauseScanning, ResumeScanning, ResetModules, busVars, managerVars
  <2> QED
    BY <1>2, <2>4, <2>5, <2>6, <2>7, <2>8 DEF BusNext, Served, ManagerCalls
<1>3. ScanInit => TableNeverOverflows
  BY <1>1 DEF ScanInit, ManagerInit, TableNeverOverflows
<1> QED
  BY <1>2, <1>3, BusInvariant, PTL DEF BusSpec
======================================================================================
