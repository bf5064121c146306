---------------------------- MODULE ReportWizard ----------------------------
(***************************************************************************)
(* The citizen's way to a report: the landing page's ReportCTA, the photo  *)
(* it hands over (lib/photo-store.ts) and the three steps of               *)
(* frontend/app/report/page.tsx, against a server that may answer late,    *)
(* not at all, or to a request that was already served.                    *)
(*                                                                         *)
(* The page runs on one thread, but everything it awaits finishes later    *)
(* and in any order: the processing of each picked photo, each answer of   *)
(* navigator.geolocation, each ward lookup and the POST.  Each is a step   *)
(* that finds the form as it then is.                                      *)
(*                                                                         *)
(* Data abstraction: a location is known by where it came from; a photo    *)
(* in Tagged also stands for the coordinates in its EXIF.  The server is   *)
(* reduced to what the page sees of it: ReportLifecycle is its inside.     *)
(* The preview, severity, note and contact are left out.  Of the honeypot, *)
(* an off-screen input outside the form, a submission carries only whether *)
(* something had filled it.                                                *)
(***************************************************************************)
EXTENDS Naturals

CONSTANTS
    Photo,      \* files the citizen may pick
    Tagged,     \* those whose EXIF holds readable coordinates
    Fix,        \* positions the browser's geolocation may return
    Pin,        \* positions the citizen may point at on the map
    Centre,     \* BENGALURU_CENTER, where an untouched form stands
    Outside,    \* locations that isInBengaluru refuses
    None,       \* null
    MaxAsks,    \* bound: geolocation requests under way
    MaxPosts    \* bound: submissions

Location == {Centre} \cup Tagged \cup Fix \cup Pin

ASSUME TaggedAssumption == Tagged \subseteq Photo
ASSUME LocationAssumption ==
    /\ \A S, T \in {{Centre}, Photo, Fix, Pin} : S # T => S \cap T = {}
    /\ Outside \subseteq Location \ {Centre}
    /\ None \notin Location \cup Photo
ASSUME BoundAssumption == MaxAsks \in Nat /\ MaxPosts \in Nat

VARIABLES
    ctaPicks,  \* photos ReportCTA is processing, on or off the screen
    pending,   \* window.__pendingPhoto
    step,      \* "home" while the wizard is not mounted
    form,      \* FormState: file, coordinates, locationSource, gpsConfirmed,
               \* and whether a category is chosen
    cta,       \* cameFromCTA
    picks,     \* photos whose handleFile is awaiting EXIF or compression
    asks,      \* getCurrentPosition calls that have not called back
    lookups,   \* locations with a ward lookup that is not aborted
    label,     \* the location wardLabel belongs to
    post,      \* what the last submission of this page sent
    reply,     \* how far that submission has come
    strays,    \* requests no page waits for any more
    rows,      \* table reports: photo, location, location_source
    posts      \* submissions so far

home == <<ctaPicks, pending>>
ward == <<lookups, label>>
page == <<step, form, cta, picks, asks>>
net  == <<post, reply, strays, rows, posts>>
wizardVars == <<home, page, ward, net>>

Source == {"EXIF_GPS", "GPS_API", "MANUAL_ADJUST"}

InitialForm == [file |-> None, loc |-> Centre, source |-> "GPS_API",
                gps |-> FALSE, category |-> FALSE]

Post == [photo : Photo, loc : Location, source : Source, trap : BOOLEAN]

Stored == {r.photo : r \in rows}

\* submitting, and submittedReportId # null.
submitting == reply \in {"wait", "ok", "error"}
done == reply = "shown"

\* What is on the screen and can be used: the landing page, the step's form, or,
\* once submittedReportId is set, the success card in place of any step.
LandingPage == step = "home"
PhotoStep == step = "photo" /\ ~done
CategoryStep == step = "category" /\ ~done
ConfirmStep == step = "confirm" /\ ~done

\* The card names the report that the answer named and the ward that the form has by
\* then, which lookups and callbacks may still change.
SuccessCard == IF done THEN {[report |-> post.photo, ward |-> label]} ELSE {}

\* The sticky buttons below the steps, when they are not disabled.
ContinueOffered == CategoryStep /\ form.category
SubmitOffered == ConfirmStep /\ ~submitting /\ form.loc \notin Outside

\* The ward card of the confirm step.
WardCard == step = "confirm" /\ label # None

WizardInit ==
    /\ ctaPicks = {} /\ pending = None
    /\ step = "home" /\ form = InitialForm /\ cta = FALSE
    /\ picks = {} /\ asks = 0
    /\ lookups = {} /\ label = None
    /\ post = None /\ reply = "none" /\ strays = {} /\ rows = {} /\ posts = 0

(***************************************************************************)
(* Helpers: the form with another photo, the effect that looks up the ward *)
(* and the ways to leave a form behind.                                    *)
(***************************************************************************)
PhotoInFormConfirmed(f, p) ==
    [f EXCEPT !.file = p,
              !.loc = IF p \in Tagged THEN p ELSE @,
              !.source = IF p \in Tagged THEN "EXIF_GPS" ELSE "GPS_API",
              !.gps = @ \/ p \in Tagged]

\* Without coordinates of its own a photo takes those of the form.
PhotoInForm(f, p) ==
    [f EXCEPT !.file = p,
              !.loc = IF p \in Tagged THEN p ELSE @,
              !.source = IF p \in Tagged THEN "EXIF_GPS" ELSE "GPS_API",
              !.gps = p \in Tagged]

\* Browser geolocation is tried for a photo without coordinates.
AskFor(p) ==
    /\ p \notin Tagged => asks < MaxAsks
    /\ asks' = IF p \in Tagged THEN asks ELSE asks + 1

WardEffectUnaborted ==
    IF step' # "confirm" THEN UNCHANGED ward
    ELSE IF step = "confirm" /\ form'.loc = form.loc THEN UNCHANGED ward
    ELSE label' = None /\ lookups' = lookups \cup {form'.loc}

\* useEffect on [step, lat, lng]: its cleanup aborts the earlier lookups.
WardEffect ==
    IF step' # "confirm" THEN lookups' = {} /\ UNCHANGED label
    ELSE IF step = "confirm" /\ form'.loc = form.loc THEN UNCHANGED ward
    ELSE label' = None /\ lookups' = {form'.loc}

\* The wizard goes away, and with it whoever waited for the POST; a request
\* that the server has not handled yet travels on.
LeaveWizard ==
    /\ step' = "home" /\ form' = InitialForm
    /\ cta' = FALSE /\ picks' = {} /\ asks' = 0
    /\ lookups' = {} /\ label' = None
    /\ post' = None /\ reply' = "none"
    /\ strays' = IF reply = "wait" THEN strays \cup {post} ELSE strays

(***************************************************************************)
(* The landing page.  Both of its inputs stay usable while a photo is      *)
(* being processed.                                                        *)
(***************************************************************************)
CtaPick(p) ==
    /\ LandingPage /\ p \notin ctaPicks
    /\ ctaPicks' = ctaPicks \cup {p}
    /\ UNCHANGED <<pending, page, ward, net>>

\* router.push("/report") and the mount effect, which takes the photo p
\* that is pending, if any, straight to the category step.
OpenWizard(p) ==
    /\ IF p = None
       THEN /\ step' = "photo"
            /\ UNCHANGED <<form, cta, asks>>
       ELSE /\ step' = "category"
            /\ form' = PhotoInForm(InitialForm, p)
            /\ cta' = TRUE
            /\ AskFor(p)
    /\ UNCHANGED picks

\* handleChange resumes: storePendingPhoto, then the push, which does
\* nothing more when another photo already opened the wizard.
CtaDone(p) ==
    /\ p \in ctaPicks
    /\ ctaPicks' = ctaPicks \ {p}
    /\ IF step = "home"
       THEN pending' = None /\ OpenWizard(p)
       ELSE pending' = p /\ UNCHANGED page
    /\ UNCHANGED <<ward, net>>

\* compressImage found no quality that fits: the wizard opens with whatever
\* is pending.
CtaTooLarge(p) ==
    /\ p \in ctaPicks
    /\ ctaPicks' = ctaPicks \ {p}
    /\ IF step = "home"
       THEN pending' = None /\ OpenWizard(pending)
       ELSE UNCHANGED <<pending, page>>
    /\ UNCHANGED <<ward, net>>

\* compressImage throws: nothing catches it and the wizard does not open.
CtaUnreadable(p) ==
    /\ p \in ctaPicks
    /\ ctaPicks' = ctaPicks \ {p}
    /\ UNCHANGED <<pending, page, ward, net>>

(***************************************************************************)
(* The photo step.                                                         *)
(***************************************************************************)
\* handleFile up to its first await.
Pick(p) ==
    /\ PhotoStep /\ p \notin picks
    /\ picks' = picks \cup {p}
    /\ UNCHANGED <<home, step, form, cta, asks, ward, net>>

\* The rest of handleFile, whatever the citizen has moved on to.
Picked(p) ==
    /\ p \in picks
    /\ picks' = picks \ {p}
    /\ form' = PhotoInForm(form, p)
    /\ step' = "category"
    /\ AskFor(p)
    /\ WardEffect
    /\ UNCHANGED <<home, cta, net>>

\* Too large to compress, or unreadable: an error message, nothing else.
PickRefused(p) ==
    /\ p \in picks
    /\ picks' = picks \ {p}
    /\ UNCHANGED <<home, step, form, cta, asks, ward, net>>

(***************************************************************************)
(* Browser geolocation calls back, whatever became of the photo it was     *)
(* asked for.                                                              *)
(***************************************************************************)
GeoFix(l) ==
    /\ asks > 0 /\ asks' = asks - 1
    /\ form' = [form EXCEPT !.loc = l, !.source = "GPS_API", !.gps = TRUE]
    /\ UNCHANGED step
    /\ WardEffect
    /\ UNCHANGED <<home, cta, picks, net>>

GeoFails ==
    /\ asks > 0 /\ asks' = asks - 1
    /\ UNCHANGED <<home, step, form, cta, picks, ward, net>>

(***************************************************************************)
(* The category and confirm steps.                                         *)
(***************************************************************************)
ChooseCategory ==
    /\ CategoryStep
    /\ form' = [form EXCEPT !.category = TRUE]
    /\ UNCHANGED <<home, step, cta, picks, asks, ward, net>>

Continue ==
    /\ ContinueOffered
    /\ step' = "confirm"
    /\ UNCHANGED form
    /\ WardEffect
    /\ UNCHANGED <<home, cta, picks, asks, net>>

BackToCategory ==
    /\ ConfirmStep
    /\ step' = "category"
    /\ UNCHANGED form
    /\ WardEffect
    /\ UNCHANGED <<home, cta, picks, asks, net>>

\* resetAll, by Retake or by Back: what is under way goes on.
Retake ==
    /\ CategoryStep
    /\ step' = "photo" /\ form' = InitialForm
    /\ cta' = FALSE
    /\ lookups' = {} /\ label' = None
    /\ UNCHANGED <<home, picks, asks, net>>

\* Back to the landing page, or the photo step's link to it.
GoHome ==
    /\ \/ CategoryStep /\ cta
       \/ PhotoStep
    /\ LeaveWizard
    /\ UNCHANGED <<home, rows, posts>>

AdjustKeepingSource(l) ==
    /\ ConfirmStep
    /\ form' = [form EXCEPT !.loc = l, !.gps = FALSE]
    /\ UNCHANGED step
    /\ WardEffect
    /\ UNCHANGED <<home, cta, picks, asks, net>>

\* The citizen opens the map and drags the pin or taps.
Adjust(l) ==
    /\ ConfirmStep
    /\ form' = [form EXCEPT !.loc = l, !.source = "MANUAL_ADJUST",
                            !.gps = FALSE]
    /\ UNCHANGED step
    /\ WardEffect
    /\ UNCHANGED <<home, cta, picks, asks, net>>

(***************************************************************************)
(* Ward lookups.                                                           *)
(***************************************************************************)
WardFound(l) ==
    /\ l \in lookups
    /\ lookups' = lookups \ {l}
    /\ label' = l
    /\ UNCHANGED <<home, page, net>>

WardFails(l) ==
    /\ l \in lookups
    /\ lookups' = lookups \ {l}
    /\ UNCHANGED <<home, page, label, net>>

(***************************************************************************)
(* Submission.                                                             *)
(***************************************************************************)
\* handleSubmit up to the POST.  The honeypot is read from the screen as it is then.
Submit ==
    /\ SubmitOffered
    /\ form.file # None
    /\ posts < MaxPosts /\ posts' = posts + 1
    /\ \E trap \in BOOLEAN :
          post' = [photo |-> form.file, loc |-> form.loc,
                   source |-> form.source, trap |-> trap]
    /\ reply' = "wait"
    /\ UNCHANGED <<home, page, ward, strays, rows>>

\* create_report serves the POST.  The hash check and the unique index let
\* a photo in once; a photo that is known is answered like a new one, or
\* with an error if it lost the race.  An error may also follow an INSERT
\* that took effect.
ServePost ==
    /\ reply = "wait" /\ ~post.trap
    /\ rows' = IF post.photo \in Stored THEN rows ELSE rows \cup {post}
    /\ reply' \in {"ok", "error"}
    /\ UNCHANGED <<home, page, ward, post, strays, posts>>

\* fake_success_response to a filled honeypot: the answer of a success, and no row.
FakeSuccess ==
    /\ reply = "wait" /\ post.trap
    /\ reply' = "ok"
    /\ UNCHANGED <<home, page, ward, post, strays, rows, posts>>

\* The rate limiter, a validation or a failing call, also one before the honeypot
\* was read: no row.
RefusePost ==
    /\ reply = "wait"
    /\ reply' = "error"
    /\ UNCHANGED <<home, page, ward, post, strays, rows, posts>>

SuccessUnanswered ==
    /\ reply = "wait"
    /\ reply' = "shown"
    /\ strays' = strays \cup {post}
    /\ UNCHANGED <<home, page, ward, post, rows, posts>>

\* handleSubmit resumes with the answer.
Success ==
    /\ reply = "ok"
    /\ reply' = "shown"
    /\ UNCHANGED <<home, page, ward, post, strays, rows, posts>>

\* An error, or a success whose body cannot be parsed: the form stays and
\* can be submitted again.
Failure ==
    /\ reply \in {"ok", "error"}
    /\ reply' = "none" /\ post' = None
    /\ UNCHANGED <<home, page, ward, strays, rows, posts>>

\* fetch rejects: the request or its answer is lost on the way.
ConnectionLost ==
    /\ submitting
    /\ reply' = "none" /\ post' = None
    /\ strays' = IF reply = "wait" THEN strays \cup {post} ELSE strays
    /\ UNCHANGED <<home, page, ward, rows, posts>>

\* The server gets to a request whose page is not waiting, or never does.
StrayServed(s) ==
    /\ s \in strays
    /\ strays' = strays \ {s}
    /\ \/ ~s.trap /\ s.photo \notin Stored /\ rows' = rows \cup {s}
       \/ UNCHANGED rows
    /\ UNCHANGED <<home, page, ward, post, reply, posts>>

\* The success card's buttons, or a reload by the browser: the landing page
\* starts afresh.
Reload ==
    /\ LeaveWizard
    /\ ctaPicks' = {} /\ pending' = None
    /\ UNCHANGED <<rows, posts>>

WizardNext ==
    \/ \E p \in Photo : \/ CtaPick(p) \/ CtaDone(p) \/ CtaTooLarge(p)
                        \/ CtaUnreadable(p)
                        \/ Pick(p) \/ Picked(p) \/ PickRefused(p)
    \/ (\E l \in Fix : GeoFix(l)) \/ GeoFails
    \/ ChooseCategory \/ Continue \/ BackToCategory \/ Retake \/ GoHome
    \/ \E l \in Pin : Adjust(l)
    \/ \E l \in Location : WardFound(l) \/ WardFails(l)
    \/ Submit \/ ServePost \/ FakeSuccess \/ RefusePost
    \/ Success \/ Failure \/ ConnectionLost
    \/ \E s \in strays : StrayServed(s)
    \/ Reload

WizardSpec == WizardInit /\ [][WizardNext]_wizardVars

(***************************************************************************)
(* Properties.                                                             *)
(***************************************************************************)
\* Types; and past the photo step there is a photo, so that the early
\* return of handleSubmit is never taken.
WizardTypeOK ==
    /\ ctaPicks \subseteq Photo
    /\ pending \in Photo \cup {None}
    /\ step \in {"home", "photo", "category", "confirm"}
    /\ form \in [file : Photo \cup {None}, loc : Location, source : Source,
                gps : BOOLEAN, category : BOOLEAN]
    /\ step \in {"category", "confirm"} => form.file # None
    /\ cta \in BOOLEAN
    /\ picks \subseteq Photo
    /\ asks \in 0..MaxAsks
    /\ lookups \subseteq Location
    /\ label \in Location \cup {None}
    /\ post \in Post \cup {None}
    /\ reply \in {"none", "wait", "ok", "error", "shown"}
    /\ reply # "none" => post \in Post
    /\ strays \subseteq Post
    /\ rows \subseteq Post
    /\ posts \in 0..MaxPosts

\* The "GPS confirmed" pill never stands over a guess: the coordinates are
\* then those of the photo in the form or of the device, not the centre of
\* the city, a pin, or the EXIF of a photo that was replaced.
ConfirmedIsMeasured == form.gps => form.loc \in Fix \cup {form.file}

\* location_source claims no more than it may: a report said to be located
\* by EXIF stands where its own photo was taken, and one said to be adjusted
\* where the citizen pointed, in whatever order photos and callbacks came.
SourceNotOverstated ==
    \A r \in rows : /\ r.source = "EXIF_GPS" => r.loc = r.photo
                    /\ r.source = "MANUAL_ADJUST" => r.loc \in Pin

\* The ward shown on the confirm step is the ward of the coordinates shown
\* above it, although lookups of other coordinates may still be under way.
LabelOfForm == WardCard => label = form.loc

\* When the citizen reads that the report was submitted, its photo is in
\* the table, whichever of the requests that carried it was served.  Only a
\* submission whose honeypot was filled is shown a success that stores nothing.
SuccessIsStored ==
    \A card \in SuccessCard : card.report \in Stored \/ post.trap

=============================================================================
