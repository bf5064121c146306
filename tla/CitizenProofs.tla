---------------------------- MODULE CitizenProofs ----------------------------
(***************************************************************************)
(* The two pages a citizen acts on, for every value of the constants.      *)
(*                                                                         *)
(* The map: for every set of keys and every quota, the limiter keeps its   *)
(* sliding window; the public map, which uses it, keeps it too, and never  *)
(* shows an empty map that no answer stands for.                           *)
(*                                                                         *)
(* The report wizard: for every set of photos, fixes and pins, whatever    *)
(* callbacks come when, what the form and the table claim of a location is *)
(* true, the ward shown is that of the coordinates shown, and a success    *)
(* stands for a stored report unless the honeypot was filled.              *)
(***************************************************************************)
EXTENDS PublicMap, ReportWizard, TLAPS


-----------------------------------------------------------------------------
(* The limiter.                                                            *)

\* Window and the products that the debt is compared with are integers.
LEMMA WindowFacts ==
    /\ Window \in Nat /\ Window >= Period
    /\ (Burst - 1) * Period \in Nat
    /\ (Burst - 1) * Period + Period = Window
    /\ 2 * Burst \in Latest /\ 1 \in Latest
    /\ (2 * Burst) * Period = Window + Window
    /\ \A i \in Latest : i * Period \in Nat /\ i \in Nat
    /\ \A i \in Latest : i # 1 => i - 1 \in Latest /\ i * Period = (i - 1) * Period + Period
PROOF
  <1>1. Burst \in Nat /\ Burst >= 1 /\ Period \in Nat /\ Period >= 1
    BY BurstAssumption, PeriodAssumption
  <1>2. \A a \in Nat, b \in Nat : a * b \in Nat
    OBVIOUS
  <1>3. (Burst - 1) * Period \in Nat /\ Window \in Nat
    BY <1>1, <1>2 DEF Window
  <1>4. (Burst - 1) * Period + Period = Window
    BY <1>1 DEF Window
  <1>5. Window >= Period
    BY <1>1, <1>3, <1>4
  <1>6. (2 * Burst) * Period = Window + Window
    BY <1>1 DEF Window
  <1>7. \A i \in Latest : i \in Nat /\ i * Period \in Nat
    BY <1>1, <1>2 DEF Latest
  <1>8. \A i \in Latest : i # 1 => i - 1 \in Latest /\ i * Period = (i - 1) * Period + Period
    BY <1>1 DEF Latest
  <1>9. 2 * Burst \in Latest /\ 1 \in Latest
    BY <1>1 DEF Latest
  <1> QED BY <1>3, <1>4, <1>5, <1>6, <1>7, <1>8, <1>9

\* Every bucket of a new process is full.
LEMMA LimiterStarts == LimiterInit => LimiterIInv
PROOF
  BY WindowFacts DEF LimiterInit, LimiterIInv, LimiterTypeOK, DebtCovers

\* A restart is a new process.
LEMMA RestartKeeps == Restart => LimiterIInv'
PROOF
  BY WindowFacts DEF Restart, LimiterIInv, LimiterTypeOK, DebtCovers

\* Time takes from the debt at most what it adds to the ages.
LEMMA TickKeeps == LimiterIInv /\ Tick => LimiterIInv'
PROOF
  <1> SUFFICES ASSUME LimiterIInv, Tick PROVE LimiterIInv'
    OBVIOUS
  <1> USE DEF LimiterIInv
  <1>1. LimiterTypeOK'
    BY WindowFacts DEF LimiterTypeOK, Tick
  <1>2. ASSUME NEW k \in Key, NEW i \in Latest, ages'[k][i] < Window
        PROVE  debt'[k] + ages'[k][i] >= i * Period
    <2>1. debt[k] \in Nat /\ ages[k][i] \in Nat /\ i * Period \in Nat /\ Window \in Nat
      BY WindowFacts DEF LimiterTypeOK
    <2>2. ages'[k][i] = IF ages[k][i] < Window THEN ages[k][i] + 1 ELSE Window
      BY DEF Tick
    <2>3. debt'[k] = IF debt[k] = 0 THEN 0 ELSE debt[k] - 1
      BY DEF Tick
    <2>4. ages[k][i] < Window /\ ages'[k][i] = ages[k][i] + 1
      BY <1>2, <2>1, <2>2
    <2>5. debt[k] + ages[k][i] >= i * Period
      BY <2>4 DEF DebtCovers
    <2> QED BY <2>1, <2>3, <2>4, <2>5
  <1> QED BY <1>1, <1>2 DEF DebtCovers

\* An admission adds a period to the debt, and one to the count of each before it.
LEMMA AdmitKeeps ==
    ASSUME NEW k \in Key, LimiterIInv, Admit(k) PROVE LimiterIInv'
PROOF
  <1> USE DEF LimiterIInv
  <1>1. debt[k] \in Nat /\ debt[k] <= (Burst - 1) * Period
    BY WindowFacts DEF LimiterTypeOK, Admit, Permitted
  <1>2. debt[k] + Period \in 0 .. Window
    BY <1>1, WindowFacts, PeriodAssumption
  <1>3. LimiterTypeOK'
    <2>1. debt' \in [Key -> 0 .. Window]
      BY <1>2 DEF LimiterTypeOK, Admit
    <2>2. [i \in Latest |-> IF i = 1 THEN 0 ELSE ages[k][i - 1]] \in [Latest -> 0 .. Window]
      BY WindowFacts DEF LimiterTypeOK
    <2>3. ages' \in [Key -> [Latest -> 0 .. Window]]
      BY <2>2 DEF LimiterTypeOK, Admit
    <2> QED BY <2>1, <2>3 DEF LimiterTypeOK
  <1>4. ASSUME NEW j \in Key, NEW i \in Latest, ages'[j][i] < Window
        PROVE  debt'[j] + ages'[j][i] >= i * Period
    <2>1. CASE j # k
      <3>1. debt'[j] = debt[j] /\ ages'[j] = ages[j]
        BY <2>1 DEF LimiterTypeOK, Admit
      <3> QED BY <3>1, <1>4 DEF DebtCovers
    <2>2. CASE j = k
      <3>1. debt'[j] = debt[k] + Period
        BY <2>2 DEF LimiterTypeOK, Admit
      <3>2. ages'[j][i] = IF i = 1 THEN 0 ELSE ages[k][i - 1]
        BY <2>2 DEF LimiterTypeOK, Admit
      <3>3. CASE i = 1
        BY <3>1, <3>2, <3>3, <1>1, PeriodAssumption
      <3>4. CASE i # 1
        <4>1. i - 1 \in Latest /\ i * Period = (i - 1) * Period + Period
          BY <3>4, WindowFacts
        <4>2. debt[k] + ages[k][i - 1] >= (i - 1) * Period
          BY <3>2, <3>4, <4>1, <1>4 DEF DebtCovers
        <4>3. ages[k][i - 1] \in Nat /\ (i - 1) * Period \in Nat /\ Period \in Nat
          BY <4>1, WindowFacts, PeriodAssumption DEF LimiterTypeOK
        <4> QED BY <1>1, <3>1, <3>2, <3>4, <4>1, <4>2, <4>3
      <3> QED BY <3>3, <3>4
    <2> QED BY <2>1, <2>2
  <1> QED BY <1>3, <1>4 DEF DebtCovers

\* What stays the same stays right.
LEMMA LimiterStutters == LimiterIInv /\ UNCHANGED limiterVars => LimiterIInv'
PROOF
  BY DEF LimiterIInv, LimiterTypeOK, DebtCovers, limiterVars

\* Every step of a limiter keeps its invariant.
LEMMA LimiterStep == LimiterIInv /\ [LimiterNext]_limiterVars => LimiterIInv'
PROOF
  <1> SUFFICES ASSUME LimiterIInv, [LimiterNext]_limiterVars PROVE LimiterIInv'
    OBVIOUS
  <1>1. CASE Tick BY <1>1, TickKeeps
  <1>2. CASE Restart BY <1>2, RestartKeeps
  <1>3. ASSUME NEW k \in Key, Admit(k) PROVE LimiterIInv'
    BY <1>3, AdmitKeeps
  <1>4. ASSUME NEW k \in Key, Refuse(k) PROVE LimiterIInv'
    BY <1>4, LimiterStutters DEF Refuse
  <1>5. CASE UNCHANGED limiterVars BY <1>5, LimiterStutters
  <1> QED BY <1>1, <1>2, <1>3, <1>4, <1>5 DEF LimiterNext

\* 2 * Burst admissions within a window would owe two windows, and the debt and
\* the time since the first of them are less than that.
LEMMA DebtBoundsWindow == LimiterIInv => SlidingWindow
PROOF
  <1> SUFFICES ASSUME LimiterIInv, NEW k \in Key PROVE ages[k][2 * Burst] = Window
    BY DEF SlidingWindow
  <1>1. debt[k] \in 0 .. Window /\ ages[k][2 * Burst] \in 0 .. Window
    BY WindowFacts DEF LimiterIInv, LimiterTypeOK
  <1>2. ages[k][2 * Burst] < Window => debt[k] + ages[k][2 * Burst] >= (2 * Burst) * Period
    BY WindowFacts DEF LimiterIInv, DebtCovers
  <1> QED BY <1>1, <1>2, WindowFacts

\* For every quota: a sliding window of a key holds fewer than twice the quota, in
\* the limiter of the submissions and in that of the GeoJSON (main.rs:135, 139).
THEOREM LimiterWindow == LimiterSpec => []SlidingWindow
PROOF
  <1>1. LimiterSpec => []LimiterIInv
    BY LimiterStarts, LimiterStep, PTL DEF LimiterSpec
  <1> QED BY <1>1, DebtBoundsWindow, PTL

-----------------------------------------------------------------------------
(* The map.                                                                *)

\* The map uses the limiter as it is meant to be used: each step is one of the
\* limiter's or leaves it alone.
LEMMA MapStepIsLimiterStep == [Next]_vars => [LimiterNext]_limiterVars
PROOF
  BY MapAssumption DEF Next, vars, LimiterNext, Hide, HandleVisibilityChange, Unmount, Mount,
     Retry, SetActiveFilter, Serve, Lose, Answered, NotAnswered, Dropped, Submitted,
     TickOnce, RestartBackend, limiterVars, Refuse

\* The public map's specification implements the limiter's.
THEOREM MapImplementsLimiter == Spec => LimiterSpec
PROOF
  <1>1. Init => LimiterInit
    BY DEF Init
  <1> QED BY <1>1, MapStepIsLimiterStep, PTL DEF Spec, LimiterSpec

\* A sliding window of the visitor's address holds fewer than twice the quota,
\* whatever the page does with its fetches (stats.rs:77).
THEOREM MapWindow == Spec => []SlidingWindow
PROOF
  BY MapImplementsLimiter, LimiterWindow, PTL

\* No fetch can leave the screen without overlay, error and answer: an empty map
\* means that the answer was empty (ReportsMap.tsx:268).
THEOREM EmptinessAnswered == Spec => []EmptyMapIsAnswered
PROOF
  <1>1. Init => EmptyMapIsAnswered
    BY DEF Init, EmptyMapIsAnswered
  <1>2. EmptyMapIsAnswered /\ [Next]_vars => EmptyMapIsAnswered'
    <2> SUFFICES ASSUME EmptyMapIsAnswered, [Next]_vars PROVE EmptyMapIsAnswered'
      OBVIOUS
    <2> USE DEF EmptyMapIsAnswered
    <2>1. CASE Hide BY <2>1 DEF Hide
    <2>2. CASE HandleVisibilityChange BY <2>2 DEF HandleVisibilityChange, FetchReports
    <2>3. CASE Unmount BY <2>3 DEF Unmount
    <2>4. CASE Mount BY <2>4 DEF Mount, FetchReports
    <2>5. CASE Retry BY <2>5 DEF Retry, FetchReports
    <2>6. ASSUME NEW f \in Category \cup {"all"}, SetActiveFilter(f) PROVE EmptyMapIsAnswered'
      BY <2>6 DEF SetActiveFilter
    <2>7. ASSUME NEW c \in calls, Serve(c) \/ Lose(c) \/ Dropped(c) PROVE EmptyMapIsAnswered'
      BY <2>7 DEF Serve, Lose, Dropped, pageVars
    <2>8. ASSUME NEW c \in calls, Answered(c) PROVE EmptyMapIsAnswered'
      BY <2>8 DEF Answered
    <2>9. ASSUME NEW c \in calls, NotAnswered(c) PROVE EmptyMapIsAnswered'
      BY <2>9 DEF NotAnswered
    <2>10. ASSUME NEW r \in Report, Submitted(r) PROVE EmptyMapIsAnswered'
      BY <2>10 DEF Submitted, pageVars
    <2>11. CASE TickOnce \/ RestartBackend BY <2>11 DEF TickOnce, RestartBackend, pageVars
    <2>12. CASE UNCHANGED vars BY <2>12 DEF vars, pageVars
    <2> QED BY <2>1, <2>2, <2>3, <2>4, <2>5, <2>6, <2>7, <2>8, <2>9, <2>10, <2>11, <2>12 DEF Next
  <1> QED BY <1>1, <1>2, PTL DEF Spec

\* Fetches begin and end as fetches.
LEMMA CallsAreCalls ==
    /\ \A n \in 1 .. MaxCalls : NewCall(n) \in Call
    /\ \A c \in Call, end \in {"asked", "ok", "limited", "failed"}, rs \in SUBSET Report :
          Ended(c, end, rs) \in Call
    /\ \A c \in Call : [n |-> c.n, live |-> FALSE, end |-> c.end, rows |-> c.rows] \in Call
PROOF
  <1>1. {} \in SUBSET Report
    OBVIOUS
  <1>2. \A n \in 1 .. MaxCalls : NewCall(n) \in Call
    BY <1>1 DEF NewCall, Call
  <1>3. \A c \in Call : c.n \in 1 .. MaxCalls /\ c.live \in BOOLEAN /\ c.rows \in SUBSET Report
                       /\ c.end \in {"asked", "ok", "limited", "failed"}
    BY DEF Call
  <1>4. ASSUME NEW c \in Call, NEW end \in {"asked", "ok", "limited", "failed"}, NEW rs \in SUBSET Report
        PROVE  Ended(c, end, rs) \in Call
    BY <1>3, Zenon DEF Ended, Call
  <1>5. ASSUME NEW c \in Call
        PROVE  [n |-> c.n, live |-> FALSE, end |-> c.end, rows |-> c.rows] \in Call
    BY <1>3, Zenon DEF Call
  <1> QED BY <1>2, <1>4, <1>5

\* The chips count what the pins show, and every fetch is one of at most MaxCalls
\* kinds: MapPage's allReports is set with ReportsMap's reports (ReportsMap.tsx:128).
THEOREM TypeCorrect == Spec => []TypeOK
PROOF
  <1> DEFINE Page == /\ mounted \in BOOLEAN /\ visible \in BOOLEAN
                     /\ loading \in BOOLEAN /\ error \in BOOLEAN /\ answered \in BOOLEAN
             Data == /\ db \subseteq Report /\ shown \subseteq Report /\ chips = shown
                     /\ filter \in Category \cup {"all"}
             Count == moves \in 0 .. MaxMoves /\ faults \in 0 .. MaxFaults
             Own == Page /\ Data /\ calls \subseteq Call /\ Count
  <1>1. Spec => []LimiterTypeOK
    <2>1. Spec => []LimiterIInv
      BY MapImplementsLimiter, LimiterStarts, LimiterStep, PTL DEF LimiterSpec
    <2> QED BY <2>1, PTL DEF LimiterIInv
  <1>2. Init => Own
    <2> SUFFICES ASSUME Init PROVE Own
      OBVIOUS
    <2>1. calls \subseteq Call
      <3>1. 1 \in 1 .. MaxCalls
        BY MapAssumption
      <3> QED BY <3>1, CallsAreCalls DEF Init
    <2>2. Page BY DEF Init
    <2>3. Data BY DEF Init
    <2>4. Count BY MapAssumption DEF Init
    <2> QED BY <2>1, <2>2, <2>3, <2>4
  <1>3. Own /\ [Next]_vars => Own'
    <2> SUFFICES ASSUME Own, [Next]_vars PROVE Own'
      OBVIOUS
    <2> USE MapAssumption
    <2>1. ASSUME FetchReports PROVE calls' \subseteq Call /\ loading' \in BOOLEAN /\ error' \in BOOLEAN
      BY <2>1, CallsAreCalls DEF FetchReports
    <2>0. ASSUME Move PROVE moves' \in 0 .. MaxMoves
      BY <2>0 DEF Move
    <2>2. CASE Hide
      <3>1. Move
        BY <2>2 DEF Hide
      <3>2. Count'
        BY <2>2, <3>1, <2>0 DEF Hide
      <3>3. Page'
        BY <2>2, Zenon DEF Hide
      <3> QED BY <2>2, <3>2, <3>3 DEF Hide
    <2>3. CASE HandleVisibilityChange BY <2>3, <2>1 DEF HandleVisibilityChange
    <2>4. CASE Unmount
      <3>1. calls' \subseteq Call
        BY <2>4, CallsAreCalls DEF Unmount
      <3>2. Move
        BY <2>4 DEF Unmount
      <3>3. Count'
        BY <2>4, <3>2, <2>0 DEF Unmount
      <3>4. Page'
        BY <2>4, Zenon DEF Unmount
      <3> QED BY <2>4, <3>1, <3>3, <3>4 DEF Unmount
    <2>5. CASE Mount BY <2>5, <2>1 DEF Mount
    <2>6. CASE Retry BY <2>6, <2>1 DEF Retry
    <2>7. ASSUME NEW f \in Category \cup {"all"}, SetActiveFilter(f) PROVE Own'
      BY <2>7 DEF SetActiveFilter, Move
    <2>8. ASSUME NEW c \in calls, Serve(c) PROVE Own'
      <3>1. calls' \subseteq Call
        BY <2>8, CallsAreCalls DEF Serve
      <3> QED BY <2>8, <3>1 DEF Serve, pageVars
    <2>9. ASSUME NEW c \in calls, Lose(c) PROVE Own'
      <3>1. calls' \subseteq Call
        BY <2>9, CallsAreCalls DEF Lose
      <3> QED BY <2>9, <3>1 DEF Lose, pageVars
    <2>10. ASSUME NEW c \in calls, Answered(c) PROVE Own'
      BY <2>10 DEF Answered, Call
    <2>11. ASSUME NEW c \in calls, NotAnswered(c) PROVE Own'
      BY <2>11 DEF NotAnswered
    <2>12. ASSUME NEW c \in calls, Dropped(c) PROVE Own'
      BY <2>12 DEF Dropped, pageVars
    <2>13. ASSUME NEW r \in Report, Submitted(r) PROVE Own'
      BY <2>13 DEF Submitted, pageVars
    <2>14. CASE TickOnce BY <2>14 DEF TickOnce, pageVars
    <2>15. CASE RestartBackend
      <3>1. calls' \subseteq Call
        BY <2>15, CallsAreCalls DEF RestartBackend
      <3> QED BY <2>15, <3>1 DEF RestartBackend, pageVars
    <2>16. CASE UNCHANGED vars BY <2>16 DEF vars, pageVars
    <2> QED BY <2>2, <2>3, <2>4, <2>5, <2>6, <2>7, <2>8, <2>9, <2>10, <2>11, <2>12, <2>13,
               <2>14, <2>15, <2>16 DEF Next
  <1>4. Spec => []Own
    BY <1>2, <1>3, PTL DEF Spec
  <1>5. LimiterTypeOK /\ Own => TypeOK
    BY DEF TypeOK
  <1> QED BY <1>1, <1>4, <1>5, PTL

-----------------------------------------------------------------------------
(* The report wizard.                                                      *)

\* What a location_source may claim of the location it comes with.
Honest(r) ==
    /\ r.source = "EXIF_GPS" => r.loc = r.photo
    /\ r.source = "MANUAL_ADJUST" => r.loc \in Pin

\* What Submit would send of a form.
Sent(f) == [photo |-> f.file, loc |-> f.loc, source |-> f.source]

\* Every copy of a claim, from the form to the table, is an honest one.
HonestEverywhere ==
    /\ Honest(Sent(form))
    /\ reply # "none" => Honest(post)
    /\ \A r \in strays \cup rows : Honest(r)

\* An answer of success is only on the way when the photo is in the table, or to a
\* submission whose honeypot was filled.
OkIsStored == reply \in {"ok", "shown"} => post.photo \in Stored \/ post.trap

\* Only the confirm step looks wards up, and only that of the form's own coordinates.
LookupsOfForm == lookups \subseteq IF step = "confirm" THEN {form.loc} ELSE {}

WizardIInv ==
    /\ WizardTypeOK
    /\ ConfirmedIsMeasured
    /\ HonestEverywhere
    /\ OkIsStored
    /\ LookupsOfForm /\ LabelOfForm

\* A wizard that nobody opened claims nothing.
LEMMA WizardStarts == WizardInit => WizardIInv
PROOF
  <1> SUFFICES ASSUME WizardInit PROVE WizardIInv
    OBVIOUS
  <1> USE DEF WizardInit
  <1>1. InitialForm \in [file : Photo \cup {None}, loc : Location, source : Source,
                         gps : BOOLEAN, category : BOOLEAN]
    BY DEF InitialForm, Location, Source
  <1>2. WizardTypeOK
    <2>1. 0 \in 0 .. MaxAsks /\ 0 \in 0 .. MaxPosts
      BY BoundAssumption
    <2>2. form \in [file : Photo \cup {None}, loc : Location, source : Source,
                    gps : BOOLEAN, category : BOOLEAN]
      BY <1>1
    <2> QED BY <2>1, <2>2 DEF WizardTypeOK
  <1>3. ConfirmedIsMeasured /\ HonestEverywhere
    BY DEF ConfirmedIsMeasured, HonestEverywhere, Honest, Sent, InitialForm
  <1>4. OkIsStored /\ LookupsOfForm /\ LabelOfForm
    BY DEF OkIsStored, LookupsOfForm, LabelOfForm, WardCard
  <1> QED BY <1>2, <1>3, <1>4 DEF WizardIInv

\* Another photo in the form: its type, and that the pill and the source speak
\* of the new photo.
LEMMA PhotoInFormFacts ==
    ASSUME NEW f \in [file : Photo \cup {None}, loc : Location, source : Source,
                      gps : BOOLEAN, category : BOOLEAN],
           NEW p \in Photo
    PROVE  LET g == PhotoInForm(f, p)
           IN  /\ g \in [file : Photo \cup {None}, loc : Location, source : Source,
                          gps : BOOLEAN, category : BOOLEAN]
               /\ g.file = p /\ g.file # None
               /\ g.gps => g.loc = g.file
               /\ Honest(Sent(g))
PROOF
  <1> DEFINE g == PhotoInForm(f, p)
  <1>1. p \in Tagged => p \in Location
    BY DEF Location
  <1>2. g \in [file : Photo \cup {None}, loc : Location, source : Source,
               gps : BOOLEAN, category : BOOLEAN]
    <2>1. CASE p \in Tagged
      <3>1. g = [f EXCEPT !.file = p, !.loc = p, !.source = "EXIF_GPS", !.gps = TRUE]
        BY <2>1, Zenon DEF PhotoInForm
      <3> QED BY <1>1, <2>1, <3>1 DEF Source
    <2>2. CASE p \notin Tagged
      <3>a. (p \in Tagged) = FALSE
        BY <2>2
      <3>b. \A x, y : (IF p \in Tagged THEN x ELSE y) = y
        BY <2>2
      <3>1. g = [f EXCEPT !.file = p, !.loc = @, !.source = "GPS_API", !.gps = FALSE]
        BY <3>a, <3>b, Zenon DEF PhotoInForm
      <3> QED BY <2>2, <3>1 DEF Source
    <2> QED BY <2>1, <2>2
  <1>3. /\ g.file = p
        /\ g.loc = IF p \in Tagged THEN p ELSE f.loc
        /\ g.source = IF p \in Tagged THEN "EXIF_GPS" ELSE "GPS_API"
        /\ g.gps = (p \in Tagged)
    BY DEF PhotoInForm
  <1>4. p # None
    BY LocationAssumption
  <1>5. Honest(Sent(g))
    BY <1>3 DEF Honest, Sent
  <1> HIDE DEF g
  <1> QED BY <1>2, <1>3, <1>4, <1>5 DEF g

\* The form a wizard opens with.
LEMMA InitialFormFacts ==
    /\ InitialForm \in [file : Photo \cup {None}, loc : Location, source : Source,
                        gps : BOOLEAN, category : BOOLEAN]
    /\ InitialForm.gps = FALSE
    /\ Honest(Sent(InitialForm))
PROOF
  BY DEF InitialForm, Location, Source, Honest, Sent

\* The effect keeps the lookups, and the ward that is shown, to the form's
\* coordinates, whatever the step did to the form.
LEMMA WardEffectKeeps ==
    ASSUME WizardIInv, WardEffect, form'.loc \in Location
    PROVE  /\ LookupsOfForm' /\ LabelOfForm'
           /\ lookups' \subseteq Location /\ label' \in Location \cup {None}
PROOF
  <1> USE DEF WizardIInv, WizardTypeOK, LookupsOfForm, LabelOfForm, WardCard
  <1>1. CASE step' # "confirm"
    BY <1>1 DEF WardEffect
  <1>2. CASE step' = "confirm" /\ step = "confirm" /\ form'.loc = form.loc
    BY <1>2 DEF WardEffect, ward
  <1>3. CASE step' = "confirm" /\ ~(step = "confirm" /\ form'.loc = form.loc)
    BY <1>3 DEF WardEffect
  <1> QED BY <1>1, <1>2, <1>3

\* Steps off the form and the ward keep what is said of both.
LEMMA PageUnchanged ==
    ASSUME WizardIInv, UNCHANGED <<step, form, ward>>
    PROVE  ConfirmedIsMeasured' /\ Honest(Sent(form))' /\ LookupsOfForm' /\ LabelOfForm'
PROOF
  BY DEF WizardIInv, ConfirmedIsMeasured, HonestEverywhere, Honest, Sent, LookupsOfForm,
         LabelOfForm, WardCard, ward

\* Steps off the network keep what is said of requests and rows.
LEMMA NetUnchanged ==
    ASSUME WizardIInv, UNCHANGED net
    PROVE  /\ reply' # "none" => Honest(post)'
           /\ (\A r \in strays \cup rows : Honest(r))'
           /\ OkIsStored'
PROOF
  BY DEF WizardIInv, HonestEverywhere, Honest, OkIsStored, Stored, net

\* How the parts of the invariant come together again.
LEMMA WizardParts ==
    ASSUME WizardTypeOK', ConfirmedIsMeasured', Honest(Sent(form))',
           reply' # "none" => Honest(post)', (\A r \in strays \cup rows : Honest(r))',
           OkIsStored', LookupsOfForm', LabelOfForm'
    PROVE  WizardIInv'
PROOF
  BY DEF WizardIInv, HonestEverywhere

\* OpenWizard mounts the page with an honest form, or with the form as it is.
LEMMA OpenWizardKeeps ==
    ASSUME WizardIInv, NEW p \in Photo \cup {None}, OpenWizard(p), UNCHANGED <<ward, net>>,
           step = "home",
           ctaPicks' \subseteq Photo, pending' \in Photo \cup {None}
    PROVE  WizardIInv'
PROOF
  <1> USE DEF WizardIInv
  <1>1. /\ reply' # "none" => Honest(post)'
        /\ (\A r \in strays \cup rows : Honest(r))'
        /\ OkIsStored'
    BY NetUnchanged
  <1>2. step' # "confirm"
    BY DEF OpenWizard
  <1>3. LookupsOfForm' /\ LabelOfForm'
    BY <1>2 DEF LookupsOfForm, LabelOfForm, WardCard, ward
  <1>4. CASE p = None
    <2>1. step' = "photo" /\ UNCHANGED <<form, cta, asks, picks>>
      BY <1>4 DEF OpenWizard
    <2>2. WizardTypeOK'
      BY <2>1 DEF WizardTypeOK, ward, net
    <2>3. ConfirmedIsMeasured' /\ Honest(Sent(form))'
      BY <2>1 DEF ConfirmedIsMeasured, HonestEverywhere, Honest, Sent
    <2> QED BY <1>1, <1>3, <2>2, <2>3, WizardParts
  <1>5. CASE p # None
    <2>1. /\ step' = "category" /\ form' = PhotoInForm(InitialForm, p)
          /\ cta' = TRUE /\ AskFor(p) /\ picks' = picks
      BY <1>5 DEF OpenWizard
    <2>2. /\ form' \in [file : Photo \cup {None}, loc : Location, source : Source,
                        gps : BOOLEAN, category : BOOLEAN]
          /\ form'.file # None /\ (form'.gps => form'.loc = form'.file)
          /\ Honest(Sent(form'))
      BY <1>5, <2>1, InitialFormFacts, PhotoInFormFacts
    <2>3. asks' \in 0 .. MaxAsks
      BY <2>1, BoundAssumption DEF AskFor, WizardTypeOK
    <2>4. WizardTypeOK'
      BY <2>1, <2>2, <2>3 DEF WizardTypeOK, ward, net
    <2>5. ConfirmedIsMeasured' /\ Honest(Sent(form))'
      BY <2>2 DEF ConfirmedIsMeasured, Honest, Sent
    <2> QED BY <1>1, <1>3, <2>4, <2>5, WizardParts
  <1> QED BY <1>4, <1>5

\* Leaving the page drops what it claimed; a request under way keeps its claim.
LEMMA LeaveWizardKeeps ==
    ASSUME WizardIInv, LeaveWizard, UNCHANGED <<rows, posts>>,
           ctaPicks' \subseteq Photo, pending' \in Photo \cup {None}
    PROVE  WizardIInv'
PROOF
  <1> USE DEF WizardIInv, LeaveWizard
  <1>1. /\ form' \in [file : Photo \cup {None}, loc : Location, source : Source,
                      gps : BOOLEAN, category : BOOLEAN]
        /\ form'.gps = FALSE /\ Honest(Sent(form'))
    BY InitialFormFacts
  <1>2. strays' \subseteq Post /\ (\A r \in strays' \cup rows' : Honest(r))
    BY DEF WizardTypeOK, HonestEverywhere
  <1>3. asks' \in 0 .. MaxAsks
    BY BoundAssumption
  <1>4. WizardTypeOK'
    BY <1>1, <1>2, <1>3 DEF WizardTypeOK
  <1>5. ConfirmedIsMeasured' /\ Honest(Sent(form))'
    BY <1>1 DEF ConfirmedIsMeasured, Honest, Sent
  <1>6. (\A r \in strays \cup rows : Honest(r))' /\ (reply' # "none" => Honest(post)')
    BY <1>2 DEF Honest
  <1>7. OkIsStored' /\ LookupsOfForm' /\ LabelOfForm'
    BY DEF OkIsStored, LookupsOfForm, LabelOfForm, WardCard
  <1> QED BY <1>4, <1>5, <1>6, <1>7, WizardParts

\* A step of the page that leaves the network alone and gives the form an
\* honest location, with the effect of the ward card run after it.
LEMMA FormStepKeeps ==
    ASSUME WizardIInv, WardEffect, UNCHANGED <<home, cta, net>>,
           step' \in {"home", "photo", "category", "confirm"},
           form' \in [file : Photo \cup {None}, loc : Location, source : Source,
                      gps : BOOLEAN, category : BOOLEAN],
           step' \in {"category", "confirm"} => form'.file # None,
           picks' \subseteq Photo, asks' \in 0 .. MaxAsks,
           form'.gps => form'.loc \in Fix \cup {form'.file},
           Honest(Sent(form'))
    PROVE  WizardIInv'
PROOF
  <1>1. /\ LookupsOfForm' /\ LabelOfForm'
        /\ lookups' \subseteq Location /\ label' \in Location \cup {None}
    BY WardEffectKeeps
  <1>2. /\ reply' # "none" => Honest(post)'
        /\ (\A r \in strays \cup rows : Honest(r))'
        /\ OkIsStored'
    BY NetUnchanged
  <1>3. WizardTypeOK'
    BY <1>1 DEF WizardIInv, WizardTypeOK, home, net
  <1>4. ConfirmedIsMeasured' /\ Honest(Sent(form))'
    BY DEF ConfirmedIsMeasured, Honest, Sent
  <1> QED BY <1>1, <1>2, <1>3, <1>4, WizardParts

\* A step of the network that leaves the page alone.
LEMMA NetStepKeeps ==
    ASSUME WizardIInv, UNCHANGED <<home, page, ward>>,
           post' \in Post \cup {None}, reply' \in {"none", "wait", "ok", "error", "shown"},
           reply' # "none" => post' \in Post,
           strays' \subseteq Post, rows' \subseteq Post, posts' \in 0 .. MaxPosts,
           reply' # "none" => Honest(post'), \A r \in strays' \cup rows' : Honest(r),
           reply' \in {"ok", "shown"} => (\E r \in rows' : r.photo = post'.photo) \/ post'.trap
    PROVE  WizardIInv'
PROOF
  <1>1. /\ ConfirmedIsMeasured' /\ Honest(Sent(form))' /\ LookupsOfForm' /\ LabelOfForm'
    BY PageUnchanged DEF page
  <1>2. WizardTypeOK'
    BY DEF WizardIInv, WizardTypeOK, home, page, ward
  <1>3. (\A r \in strays \cup rows : Honest(r))' /\ (reply' # "none" => Honest(post)')
    BY DEF Honest
  <1>4. OkIsStored'
    BY DEF OkIsStored, Stored
  <1> QED BY <1>1, <1>2, <1>3, <1>4, WizardParts

\* Every step of the page, of its callbacks, of the network and of the citizen keeps
\* the invariant.
LEMMA WizardKeeps == WizardIInv /\ [WizardNext]_wizardVars => WizardIInv'
PROOF
  <1> SUFFICES ASSUME WizardIInv, [WizardNext]_wizardVars PROVE WizardIInv'
    OBVIOUS
  <1>t. WizardTypeOK /\ ConfirmedIsMeasured /\ HonestEverywhere /\ OkIsStored
    BY DEF WizardIInv
  <1>f. /\ form \in [file : Photo \cup {None}, loc : Location, source : Source,
                     gps : BOOLEAN, category : BOOLEAN]
        /\ form.gps => form.loc \in Fix \cup {form.file}
        /\ Honest(Sent(form))
        /\ step \in {"home", "photo", "category", "confirm"}
        /\ step \in {"category", "confirm"} => form.file # None
        /\ picks \subseteq Photo /\ asks \in 0 .. MaxAsks
    BY <1>t DEF WizardTypeOK, ConfirmedIsMeasured, HonestEverywhere
  <1>n. /\ post \in Post \cup {None} /\ reply \in {"none", "wait", "ok", "error", "shown"}
        /\ reply # "none" => post \in Post
        /\ strays \subseteq Post /\ rows \subseteq Post /\ posts \in 0 .. MaxPosts
        /\ reply # "none" => Honest(post)
        /\ \A r \in strays \cup rows : Honest(r)
        /\ reply \in {"ok", "shown"} => (\E r \in rows : r.photo = post.photo) \/ post.trap
    BY <1>t DEF WizardTypeOK, HonestEverywhere, OkIsStored, Stored
  <1>1. ASSUME NEW p \in Photo, CtaPick(p) PROVE WizardIInv'
    <2>1. WizardTypeOK'
      BY <1>1, <1>t DEF CtaPick, WizardTypeOK, page, ward, net
    <2>2. /\ reply' # "none" => Honest(post)'
          /\ (\A r \in strays \cup rows : Honest(r))'
          /\ OkIsStored'
      BY <1>1, NetUnchanged DEF CtaPick
    <2>3. ConfirmedIsMeasured' /\ Honest(Sent(form))' /\ LookupsOfForm' /\ LabelOfForm'
      BY <1>1, PageUnchanged DEF CtaPick, page
    <2> QED BY <2>1, <2>2, <2>3, WizardParts
  <1>2. ASSUME NEW p \in Photo, CtaDone(p) PROVE WizardIInv'
    <2>1. ctaPicks' \subseteq Photo
      BY <1>2, <1>t DEF CtaDone, WizardTypeOK
    <2>2. CASE step = "home"
      BY <1>2, <2>1, <2>2, OpenWizardKeeps DEF CtaDone
    <2>3. CASE step # "home"
      <3>1. UNCHANGED <<page, ward, net>> /\ pending' = p
        BY <1>2, <2>3 DEF CtaDone
      <3>2. WizardTypeOK'
        BY <2>1, <3>1, <1>t DEF WizardTypeOK, page, ward, net
      <3>3. /\ reply' # "none" => Honest(post)'
            /\ (\A r \in strays \cup rows : Honest(r))'
            /\ OkIsStored'
        BY <3>1, NetUnchanged
      <3>4. ConfirmedIsMeasured' /\ Honest(Sent(form))' /\ LookupsOfForm' /\ LabelOfForm'
        BY <3>1, PageUnchanged DEF page
      <3> QED BY <3>2, <3>3, <3>4, WizardParts
    <2> QED BY <2>2, <2>3
  <1>3. ASSUME NEW p \in Photo, CtaTooLarge(p) \/ CtaUnreadable(p) PROVE WizardIInv'
    <2>1. ctaPicks' \subseteq Photo /\ pending \in Photo \cup {None}
      BY <1>3, <1>t DEF CtaTooLarge, CtaUnreadable, WizardTypeOK
    <2>2. CASE CtaTooLarge(p) /\ step = "home"
      BY <2>1, <2>2, OpenWizardKeeps DEF CtaTooLarge
    <2>3. CASE UNCHANGED <<pending, page, ward, net>>
      <3>2. WizardTypeOK'
        BY <2>1, <2>3, <1>t DEF WizardTypeOK, page, ward, net
      <3>3. /\ reply' # "none" => Honest(post)'
            /\ (\A r \in strays \cup rows : Honest(r))'
            /\ OkIsStored'
        BY <2>3, NetUnchanged
      <3>4. ConfirmedIsMeasured' /\ Honest(Sent(form))' /\ LookupsOfForm' /\ LabelOfForm'
        BY <2>3, PageUnchanged DEF page
      <3> QED BY <3>2, <3>3, <3>4, WizardParts
    <2> QED BY <1>3, <2>2, <2>3 DEF CtaTooLarge, CtaUnreadable
  <1>4. ASSUME NEW p \in Photo, Pick(p) \/ PickRefused(p) PROVE WizardIInv'
    <2>1. picks' \subseteq Photo /\ UNCHANGED <<home, step, form, cta, asks, ward, net>>
      BY <1>4, <1>f DEF Pick, PickRefused
    <2>2. WizardTypeOK'
      BY <2>1, <1>t DEF WizardTypeOK, home, ward, net
    <2>3. /\ reply' # "none" => Honest(post)'
          /\ (\A r \in strays \cup rows : Honest(r))'
          /\ OkIsStored'
      BY <2>1, NetUnchanged
    <2>4. ConfirmedIsMeasured' /\ Honest(Sent(form))' /\ LookupsOfForm' /\ LabelOfForm'
      BY <2>1, PageUnchanged
    <2> QED BY <2>2, <2>3, <2>4, WizardParts
  <1>5. ASSUME NEW p \in Photo, Picked(p) PROVE WizardIInv'
    <2>1. /\ form' = PhotoInForm(form, p) /\ step' = "category" /\ picks' = picks \ {p}
          /\ AskFor(p) /\ WardEffect /\ UNCHANGED <<home, cta, net>>
      BY <1>5 DEF Picked
    <2>2. /\ form' \in [file : Photo \cup {None}, loc : Location, source : Source,
                        gps : BOOLEAN, category : BOOLEAN]
          /\ form'.file # None /\ (form'.gps => form'.loc = form'.file)
          /\ Honest(Sent(form'))
      BY <2>1, <1>f, PhotoInFormFacts
    <2>3. asks' \in 0 .. MaxAsks
      BY <2>1, <1>f, BoundAssumption DEF AskFor
    <2>4. picks' \subseteq Photo
      BY <2>1, <1>f
    <2> QED BY <2>1, <2>2, <2>3, <2>4, FormStepKeeps
  <1>6. ASSUME NEW l \in Fix, GeoFix(l) PROVE WizardIInv'
    <2>1. /\ form' = [form EXCEPT !.loc = l, !.source = "GPS_API", !.gps = TRUE]
          /\ step' = step /\ picks' = picks /\ asks > 0 /\ asks' = asks - 1
          /\ WardEffect /\ UNCHANGED <<home, cta, net>>
      BY <1>6 DEF GeoFix
    <2>2. /\ form' \in [file : Photo \cup {None}, loc : Location, source : Source,
                        gps : BOOLEAN, category : BOOLEAN]
          /\ form'.loc = l /\ form'.file = form.file /\ form'.source = "GPS_API"
      BY <2>1, <1>f DEF Location, Source
    <2>3. Honest(Sent(form'))
      BY <2>2 DEF Honest, Sent
    <2>4. asks' \in 0 .. MaxAsks
      BY <2>1, <1>f, BoundAssumption
    <2> QED BY <2>1, <2>2, <2>3, <2>4, <1>f, FormStepKeeps
  <1>7. CASE GeoFails
    <2>1. asks' \in 0 .. MaxAsks /\ UNCHANGED <<home, step, form, cta, picks, ward, net>>
      BY <1>7, <1>f, BoundAssumption DEF GeoFails
    <2>2. WizardTypeOK'
      BY <2>1, <1>t DEF WizardTypeOK, home, ward, net
    <2>3. /\ reply' # "none" => Honest(post)'
          /\ (\A r \in strays \cup rows : Honest(r))'
          /\ OkIsStored'
      BY <2>1, NetUnchanged
    <2>4. ConfirmedIsMeasured' /\ Honest(Sent(form))' /\ LookupsOfForm' /\ LabelOfForm'
      BY <2>1, PageUnchanged
    <2> QED BY <2>2, <2>3, <2>4, WizardParts
  <1>8. CASE ChooseCategory
    <2>1. /\ form' = [form EXCEPT !.category = TRUE]
          /\ UNCHANGED <<home, step, cta, picks, asks, ward, net>>
      BY <1>8 DEF ChooseCategory
    <2>2. /\ form' \in [file : Photo \cup {None}, loc : Location, source : Source,
                        gps : BOOLEAN, category : BOOLEAN]
          /\ form'.loc = form.loc /\ form'.file = form.file /\ form'.source = form.source
          /\ form'.gps = form.gps
      BY <2>1, <1>f
    <2>3. Honest(Sent(form')) /\ WardEffect
      BY <1>8, <2>1, <2>2, <1>f DEF Honest, Sent, WardEffect, ChooseCategory, CategoryStep,
               ward, WizardIInv, LookupsOfForm
    <2> QED BY <2>1, <2>2, <2>3, <1>f, FormStepKeeps
  <1>9. CASE Continue \/ BackToCategory
    <2>1. /\ form' = form /\ step' \in {"category", "confirm"} /\ step \in {"category", "confirm"}
          /\ WardEffect /\ UNCHANGED <<home, cta, picks, asks, net>>
      BY <1>9 DEF Continue, BackToCategory, ContinueOffered, CategoryStep, ConfirmStep
    <2> QED BY <2>1, <1>f, FormStepKeeps
  <1>10. CASE Retake
    <2>1. /\ step' = "photo" /\ form' = InitialForm /\ cta' = FALSE
          /\ lookups' = {} /\ label' = None /\ UNCHANGED <<home, picks, asks, net>>
      BY <1>10 DEF Retake
    <2>2. WizardTypeOK'
      BY <2>1, <1>t, InitialFormFacts DEF WizardTypeOK, home, net
    <2>3. /\ reply' # "none" => Honest(post)'
          /\ (\A r \in strays \cup rows : Honest(r))'
          /\ OkIsStored'
      BY <2>1, NetUnchanged
    <2>4. ConfirmedIsMeasured' /\ Honest(Sent(form))' /\ LookupsOfForm' /\ LabelOfForm'
      BY <2>1, InitialFormFacts
         DEF ConfirmedIsMeasured, Honest, Sent, LookupsOfForm, LabelOfForm, WardCard
    <2> QED BY <2>2, <2>3, <2>4, WizardParts
  <1>11. CASE GoHome \/ Reload
    BY <1>11, <1>t, LeaveWizardKeeps DEF GoHome, Reload, home, WizardTypeOK
  <1>12. ASSUME NEW l \in Pin, Adjust(l) PROVE WizardIInv'
    <2>1. /\ form' = [form EXCEPT !.loc = l, !.source = "MANUAL_ADJUST", !.gps = FALSE]
          /\ step' = step /\ WardEffect /\ UNCHANGED <<home, cta, picks, asks, net>>
      BY <1>12 DEF Adjust
    <2>2. /\ form' \in [file : Photo \cup {None}, loc : Location, source : Source,
                        gps : BOOLEAN, category : BOOLEAN]
          /\ form'.loc = l /\ form'.file = form.file /\ form'.source = "MANUAL_ADJUST"
          /\ form'.gps = FALSE
      BY <2>1, <1>f DEF Location, Source
    <2>3. Honest(Sent(form'))
      BY <2>2 DEF Honest, Sent
    <2> QED BY <2>1, <2>2, <2>3, <1>f, FormStepKeeps
  <1>13. ASSUME NEW l \in Location, WardFound(l) \/ WardFails(l) PROVE WizardIInv'
    <2>1. /\ l \in lookups /\ lookups' = lookups \ {l} /\ label' \in {l, label}
          /\ UNCHANGED <<home, page, net>>
      BY <1>13 DEF WardFound, WardFails
    <2>2. WizardTypeOK'
      BY <2>1, <1>t DEF WizardTypeOK, home, page, net
    <2>3. /\ reply' # "none" => Honest(post)'
          /\ (\A r \in strays \cup rows : Honest(r))'
          /\ OkIsStored'
      BY <2>1, NetUnchanged
    <2>4. ConfirmedIsMeasured' /\ Honest(Sent(form))'
      BY <2>1, <1>t DEF ConfirmedIsMeasured, HonestEverywhere, Honest, Sent, page
    <2>5. LookupsOfForm' /\ LabelOfForm'
      BY <2>1 DEF WizardIInv, LookupsOfForm, LabelOfForm, WardCard, page
    <2> QED BY <2>2, <2>3, <2>4, <2>5, WizardParts
  <1>14. CASE Submit
    <2>1. /\ reply = "none" /\ form.file # None /\ reply' = "wait"
          /\ \E trap \in BOOLEAN : post' = [photo |-> form.file, loc |-> form.loc,
                                          source |-> form.source, trap |-> trap]
          /\ posts < MaxPosts /\ posts' = posts + 1
          /\ UNCHANGED <<home, page, ward, strays, rows>>
      BY <1>14, <1>n DEF Submit, SubmitOffered, ConfirmStep, submitting, done
    <2>2. post' \in Post /\ Honest(post')
      BY <2>1, <1>f DEF Post, Honest, Sent
    <2>4. posts' \in 0 .. MaxPosts
      BY <2>1, <1>n, BoundAssumption
    <2> QED BY <2>1, <2>2, <2>4, <1>n, NetStepKeeps
  <1>15. CASE ServePost
    <2>1. /\ reply = "wait" /\ reply' \in {"ok", "error"}
          /\ rows' = IF post.photo \in Stored THEN rows ELSE rows \cup {post}
          /\ UNCHANGED <<home, page, ward, post, strays, posts>>
      BY <1>15 DEF ServePost
    <2>2. post \in Post /\ Honest(post)
      BY <2>1, <1>n
    <2>4. \E r \in rows' : r.photo = post'.photo
      BY <2>1 DEF Stored
    <2> QED BY <2>1, <2>2, <2>4, <1>n, NetStepKeeps
  <1>16. CASE RefusePost \/ FakeSuccess \/ Success
    <2>1. /\ \/ reply' = "error"
             \/ post.trap /\ reply' = "ok"
             \/ reply = "ok" /\ reply' = "shown"
          /\ reply # "none"
          /\ UNCHANGED <<home, page, ward, post, strays, rows, posts>>
      BY <1>16 DEF RefusePost, FakeSuccess, Success
    <2> QED BY <2>1, <1>n, NetStepKeeps
  <1>17. CASE Failure
    BY <1>17, <1>n, NetStepKeeps DEF Failure
  <1>18. CASE ConnectionLost
    <2>1. /\ reply' = "none" /\ post' = None
          /\ strays' = IF reply = "wait" THEN strays \cup {post} ELSE strays
          /\ UNCHANGED <<home, page, ward, rows, posts>>
      BY <1>18 DEF ConnectionLost
    <2>2. strays' \subseteq Post /\ \A r \in strays' \cup rows' : Honest(r)
      BY <2>1, <1>n
    <2> QED BY <2>1, <2>2, <1>n, NetStepKeeps
  <1>19. ASSUME NEW s \in strays, StrayServed(s) PROVE WizardIInv'
    <2>1. /\ strays' = strays \ {s}
          /\ rows' = rows \/ (s.photo \notin Stored /\ rows' = rows \cup {s})
          /\ UNCHANGED <<home, page, ward, post, reply, posts>>
      BY <1>19 DEF StrayServed
    <2>3. rows \subseteq rows' /\ rows' \subseteq Post /\ strays' \subseteq Post
          /\ \A r \in strays' \cup rows' : Honest(r)
      BY <2>1, <1>n
    <2> QED BY <2>1, <2>3, <1>n, NetStepKeeps
  <1>20. CASE UNCHANGED wizardVars
    BY <1>20, <1>n, NetStepKeeps DEF wizardVars, net
  <1> QED
    BY <1>1, <1>2, <1>3, <1>4, <1>5, <1>6, <1>7, <1>8, <1>9, <1>10, <1>11, <1>12, <1>13,
       <1>14, <1>15, <1>16, <1>17, <1>18, <1>19, <1>20 DEF WizardNext

\* For every set of photos, fixes and pins: the invariant holds throughout.
THEOREM WizardInvariant == WizardSpec => []WizardIInv
PROOF
  BY WizardStarts, WizardKeeps, PTL DEF WizardSpec

\* For every instance: the "GPS confirmed" pill never stands over a guess, whatever
\* photos and geolocation answers arrived since (page.tsx: handleFile,
\* tryBrowserGeolocation).
THEOREM AlwaysConfirmedIsMeasured == WizardSpec => []ConfirmedIsMeasured
PROOF
  <1>1. WizardIInv => ConfirmedIsMeasured
    BY DEF WizardIInv
  <1> QED BY <1>1, WizardInvariant, PTL

\* For every instance: no row of the table claims an EXIF or a manual location that
\* is not one, through whichever request it came.
THEOREM AlwaysSourceNotOverstated == WizardSpec => []SourceNotOverstated
PROOF
  <1>1. WizardIInv => SourceNotOverstated
    BY DEF WizardIInv, HonestEverywhere, Honest, SourceNotOverstated
  <1> QED BY <1>1, WizardInvariant, PTL

\* For every instance: the ward on the confirm step is that of the coordinates above
\* it (the abort in the cleanup of the lookup's effect).
THEOREM AlwaysLabelOfForm == WizardSpec => []LabelOfForm
PROOF
  <1>1. WizardIInv => LabelOfForm
    BY DEF WizardIInv
  <1> QED BY <1>1, WizardInvariant, PTL

\* For every instance: a citizen who reads that the report was submitted has its photo
\* in the table, unless the submission came with a filled honeypot.
THEOREM AlwaysSuccessIsStored == WizardSpec => []SuccessIsStored
PROOF
  <1>1. WizardIInv => SuccessIsStored
    BY DEF WizardIInv, OkIsStored, SuccessIsStored, SuccessCard, done
  <1> QED BY <1>1, WizardInvariant, PTL

=============================================================================
