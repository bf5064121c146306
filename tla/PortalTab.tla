------------------------------- MODULE PortalTab -------------------------------
(***************************************************************************)
(* One browser tab in the admin portal, from signing in to signing out:    *)
(* the cookie, the login page, the pages that only read (dashboard, map,   *)
(* analytics) and the profile page with its two forms.  The queue, the     *)
(* report page and the users page have modules of their own.               *)
(*                                                                         *)
(* Most links of the portal load a page from the server; what was asked    *)
(* for on the page that is left may still arrive at the server, and its    *)
(* Set-Cookie in the browser.  The link to the profile and the redirects   *)
(* of a 401 go through the router, and the sidebar stays with its calls.   *)
(* Every answer crosses apiFetch, which reads a body from all but a 204,   *)
(* and so fails on the empty 200 of two handlers.                          *)
(***************************************************************************)
EXTENDS Integers, FiniteSets

CONSTANTS Name,         \* display names that admin_update_profile accepts
          Password,     \* passwords long enough for admin_change_password
          InitName, InitPassword,
          None,
          LockSeconds,  \* RATE_LIMIT_SECONDS
          MaxActions,   \* bound: clicks that load a page, send a form or change a period
          MaxFaults     \* bound: lost answers, limited sign-ins, other sessions

ASSUME TabAssumption ==
    /\ InitName \in Name /\ InitPassword \in Password
    /\ None \notin Name /\ None \notin Password
    /\ LockSeconds \in Nat \ {0} /\ MaxActions \in Nat /\ MaxFaults \in Nat

VARIABLES
    \* the account's row
    name, password,
    \* the browser
    cookie,      \* does it hold an admin_token that is not expired
    screen,      \* the page that is open
    page,        \* the state of that page
    calls,       \* calls in flight
    \* histories and bounds
    leftLogin,   \* was a page left while it was signing in
    ours,        \* was the name last written by a save that its page awaited
    applied,     \* did the last change of the password happen
    actions, faults

account == <<name, password>>
histories == <<leftLogin, ours, applied>>
portalVars == <<account, cookie, screen, page, calls, histories, actions, faults>>

Parts == {"wards", "corps", "trend"}
Period == {"7D", "14D", "30D"}
Reads == Parts \cup {"stats", "intake", "reports", "boundaries"}
Kind == Reads \cup {"login", "logout", "me", "name", "password"}
Underway == {"asked", "verified"}

\* A call of the tab: what it asks, whether it carries a token, whether its page is
\* still there, and how far it has come.
Call == [n : Nat, kind : Kind, arg : {None} \cup Period \cup Name \cup Password,
         new : {None} \cup Password, auth : BOOLEAN, live : BOOLEAN,
         step : {"asked", "verified", "done", "unauthorized", "refused", "limited",
                 "unreadable", "failed"},
         ans : {None} \cup Name]

\* Calls of one kind and argument are numbered apart.
Asking(kind, arg, new, auth) ==
    LET used == {c.n : c \in {d \in calls : d.kind = kind /\ d.arg = arg}}
    IN  [n |-> CHOOSE n \in 1 .. Cardinality(used) + 1 : n \notin used, kind |-> kind, arg |-> arg,
         new |-> new, auth |-> auth, live |-> TRUE, step |-> "asked", ans |-> None]

\* Of the calls that are left behind, those that only read are of no consequence.  A
\* page that comes by the router finds the sidebar as it was, waiting to sign out.
Left(cs, routed) ==
    {[c EXCEPT !.live = c.live /\ routed /\ c.kind = "logout"] :
        c \in {d \in cs : d.kind \notin Reads \cup {"me"}}}

\* The states in which pages start.
LoginPage(by) == [by |-> by, typed |-> None, busy |-> FALSE, error |-> "none", countdown |-> 0]
Dashboard == [stats |-> "loading", period |-> "14D", bars |-> None]
ReportsMap == [state |-> "loading", category |-> FALSE, status |-> FALSE]
Analytics == [state |-> "loading", fetch |-> 1, got |-> {}, shown |-> [p \in Parts |-> 0],
              map |-> "loading", ward |-> FALSE]
Profile == [state |-> "loading", displayName |-> None, initialName |-> None, saving |-> FALSE,
            said |-> "none", current |-> None, next |-> None, confirmed |-> FALSE,
            changing |-> FALSE, told |-> "none"]

Screens == {"dashboard", "map", "analytics", "profile"}

PageOf(s) == CASE s = "dashboard" -> Dashboard
               [] s = "map"       -> ReportsMap
               [] s = "analytics" -> Analytics
               [] s = "profile"   -> Profile

\* What a page asks for when it is mounted.
Asked(s) == CASE s = "dashboard" -> {<<"stats", None>>, <<"intake", "14D">>}
              [] s = "map"       -> {<<"reports", None>>}
              [] s = "analytics" -> {<<p, None>> : p \in Parts \cup {"boundaries"}}
              [] s = "profile"   -> {<<"me", None>>}

PortalInit ==
    /\ name = InitName /\ password = InitPassword
    /\ cookie = FALSE
    /\ screen = "login" /\ page = LoginPage("visit")
    /\ calls = {}
    /\ leftLogin = FALSE /\ ours = FALSE /\ applied = FALSE
    /\ actions = 0 /\ faults = 0

Fault == faults < MaxFaults /\ faults' = faults + 1
Act == actions < MaxActions /\ actions' = actions + 1

-----------------------------------------------------------------------------
(* Loading pages: middleware and layout.                                   *)

\* A sign-in that is left may still be served, and is on record.
Leaving(rest) == leftLogin' = (leftLogin \/ \E c \in rest : c.kind = "login" /\ c.live)

\* Mounted in place of a page, of whose calls rest are in flight.
Show(s, rest, routed) ==
    /\ screen' = s /\ page' = PageOf(s)
    /\ calls' = Left(rest, routed) \cup {Asking(k[1], k[2], None, TRUE) : k \in Asked(s)}
    /\ Leaving(rest)

ShowLogin(by, rest) ==
    /\ screen' = "login" /\ page' = LoginPage(by)
    /\ calls' = Left(rest, by = "router")
    /\ Leaving(rest)

\* A link or an address.  Without a cookie, or when the layout cannot learn from
\* /auth/me who it is, the login page comes instead.
Open(s) ==
    /\ Act
    /\ IF cookie THEN Show(s, calls, FALSE) ELSE ShowLogin("guard", calls)
    /\ UNCHANGED <<account, cookie, ours, applied, faults>>

OpenUnverified ==
    /\ cookie
    /\ Act /\ Fault
    /\ ShowLogin("guard", calls)
    /\ UNCHANGED <<account, cookie, ours, applied>>

OpenLogin ==
    /\ Act
    /\ ShowLogin("visit", calls)
    /\ UNCHANGED <<account, cookie, ours, applied, faults>>

\* Token and cookie expire together, also for calls that carry them.
Expire ==
    /\ cookie
    /\ cookie' = FALSE
    /\ calls' = {[c EXCEPT !.auth = FALSE] : c \in calls}
    /\ UNCHANGED <<account, screen, page, histories, actions, faults>>

\* The page asks for something more.
Ask(kind, arg, new) == calls' = calls \cup {Asking(kind, arg, new, cookie)}

-----------------------------------------------------------------------------
(* The login page.                                                         *)

IsRateLimited == page.countdown > 0

\* The fields are disabled during a sign-in, the button also while it is locked.
LoginForm == screen = "login" /\ ~page.busy
SubmitOffered == LoginForm /\ ~IsRateLimited

TypePassword(p) ==
    /\ LoginForm
    /\ page.typed # p
    /\ page' = [page EXCEPT !.typed = p]
    /\ UNCHANGED <<account, cookie, screen, calls, histories, actions, faults>>

HandleSubmit ==
    /\ SubmitOffered
    /\ page.typed # None
    /\ Act
    /\ page' = [page EXCEPT !.busy = TRUE, !.error = "none"]
    /\ Ask("login", page.typed, None)
    /\ UNCHANGED <<account, cookie, screen, histories, faults>>

LoggedIn(c) ==
    /\ c.kind = "login" /\ c.live /\ c.step = "done"
    /\ cookie' = TRUE
    /\ Show("dashboard", calls \ {c}, FALSE)
    /\ UNCHANGED <<account, ours, applied, actions, faults>>

NotLoggedInStillBusy(c) ==
    /\ c.kind = "login" /\ c.live /\ c.step \in {"refused", "limited", "failed"}
    /\ calls' = calls \ {c}
    /\ page' = [page EXCEPT !.error = c.step]
    /\ UNCHANGED <<account, cookie, screen, histories, actions, faults>>

\* 401 clears the password, 429 locks the form.
NotLoggedIn(c) ==
    /\ c.kind = "login" /\ c.live /\ c.step \in {"refused", "limited", "failed"}
    /\ calls' = calls \ {c}
    /\ page' = [page EXCEPT !.busy = FALSE,
                            !.error = c.step,
                            !.typed = IF c.step = "refused" THEN None ELSE @,
                            !.countdown = IF c.step = "limited" THEN LockSeconds ELSE @]
    /\ UNCHANGED <<account, cookie, screen, histories, actions, faults>>

CountDown ==
    /\ screen = "login" /\ IsRateLimited
    /\ page' = [page EXCEPT !.countdown = @ - 1]
    /\ UNCHANGED <<account, cookie, screen, calls, histories, actions, faults>>

-----------------------------------------------------------------------------
(* Signing out, from the sidebar or the profile page.                      *)

\* The sidebar stands beside every page but a login page that was loaded: the layout
\* is not rendered anew for one that the router shows.
Sidebar == screen = "login" => page.by = "router"

HandleLogout ==
    /\ Sidebar
    /\ Act
    /\ Ask("logout", None, None)
    /\ UNCHANGED <<account, cookie, screen, page, histories, faults>>

\* Whatever the answer, the login page is next; only an answer of the handler
\* removes the cookie.
LoggedOut(c) ==
    /\ c.kind = "logout" /\ c.live /\ c.step \notin Underway
    /\ cookie' = (cookie /\ c.step # "unreadable")
    /\ ShowLogin("logout", calls \ {c})
    /\ UNCHANGED <<account, ours, applied, actions, faults>>

\* The sidebar's link to the profile, through the middleware but not the layout.
OpenProfile ==
    /\ Sidebar /\ screen # "profile" /\ (screen = "login" => cookie)
    /\ Act
    /\ IF cookie THEN Show("profile", calls, TRUE) ELSE ShowLogin("router", calls)
    /\ UNCHANGED <<account, cookie, ours, applied, faults>>

-----------------------------------------------------------------------------
(* The dashboard, without the list of recent reports, which stays empty    *)
(* when it cannot be had.                                                  *)

\* Both layouts are in the page and the width shows one.  The narrow one has the cards
\* and, when they failed, Retry; the wide one has bars and periods, and zeros for all
\* that has not come, failed or not, without a Retry.
StatsCards == [show |-> page.stats, offers |-> IF page.stats = "error" THEN {"Retry"} ELSE {}]
MobileLayout == [counts |-> page.stats = "data", cards |-> StatsCards, offers |-> StatsCards.offers]
DesktopLayout == [counts |-> page.stats = "data", bars |-> page.bars, offers |-> Period]

\* The effect of activePeriod asks anew and cancels nothing.
SetActivePeriod(p) ==
    /\ screen = "dashboard" /\ p \in DesktopLayout.offers
    /\ page.period # p
    /\ Act
    /\ page' = [page EXCEPT !.period = p]
    /\ Ask("intake", p, None)
    /\ UNCHANGED <<account, cookie, screen, histories, faults>>

\* One bar for each day of the period that was asked for, all flat when it failed;
\* of two periods asked for at once, those of the later answer.
IntakeAnswered(c) ==
    /\ c.kind = "intake" /\ c.live /\ c.step \notin Underway
    /\ calls' = calls \ {c}
    /\ page' = [page EXCEPT !.bars = c.arg]
    /\ UNCHANGED <<account, cookie, screen, histories, actions, faults>>

StatsAnswered(c) ==
    /\ c.kind = "stats" /\ c.live /\ c.step \notin Underway
    /\ calls' = calls \ {c}
    /\ page' = [page EXCEPT !.stats = IF c.step = "done" THEN "data" ELSE "error"]
    /\ UNCHANGED <<account, cookie, screen, histories, actions, faults>>

RetryStats ==
    /\ screen = "dashboard" /\ "Retry" \in MobileLayout.offers
    /\ Act
    /\ page' = [page EXCEPT !.stats = "loading"]
    /\ Ask("stats", None, None)
    /\ UNCHANGED <<account, cookie, screen, histories, faults>>

-----------------------------------------------------------------------------
(* The map of the portal.                                                  *)

\* 401 leads to the login page by the router, every other failure to a card.
ReportsAnswered(c) ==
    /\ c.kind = "reports" /\ c.live /\ c.step \notin Underway
    /\ IF c.step = "unauthorized" THEN ShowLogin("router", calls \ {c})
       ELSE /\ page' = [page EXCEPT !.state = IF c.step = "done" THEN "data" ELSE "error"]
            /\ calls' = calls \ {c}
            /\ UNCHANGED <<screen, leftLogin>>
    /\ UNCHANGED <<account, cookie, ours, applied, actions, faults>>

\* A card in place of the map, or the map with its filters.
MapError == screen = "map" /\ page.state = "error"
MapShown == screen = "map" /\ page.state = "data"

RetryReports ==
    /\ MapError
    /\ Act
    /\ page' = [page EXCEPT !.state = "loading"]
    /\ Ask("reports", None, None)
    /\ UNCHANGED <<account, cookie, screen, histories, faults>>

\* A filter of the pins is set, or both are reset.
SetMapFilter(category, status) ==
    /\ MapShown
    /\ <<category, status>> # <<page.category, page.status>>
    /\ page' = [page EXCEPT !.category = category, !.status = status]
    /\ UNCHANGED <<account, cookie, screen, calls, histories, actions, faults>>

-----------------------------------------------------------------------------
(* Analytics: three calls and one Promise.all.                             *)

PartAnsweredAtOnce(c) ==
    /\ c.kind \in Parts /\ c.live /\ c.step = "done"
    /\ calls' = calls \ {c}
    /\ LET got == page.got \cup {c.kind}
       IN  page' = [page EXCEPT !.got = got, !.shown[c.kind] = page.fetch,
                                !.state = IF got = Parts THEN "data" ELSE @]
    /\ UNCHANGED <<account, cookie, screen, histories, actions, faults>>

\* The third answer sets all three.
PartAnswered(c) ==
    /\ c.kind \in Parts /\ c.live /\ c.step = "done"
    /\ calls' = calls \ {c}
    /\ LET got == page.got \cup {c.kind}
       IN  page' = IF got = Parts
                   THEN [page EXCEPT !.got = got, !.state = "data",
                                     !.shown = [p \in Parts |-> page.fetch]]
                   ELSE [page EXCEPT !.got = got]
    /\ UNCHANGED <<account, cookie, screen, histories, actions, faults>>

\* The first failure settles the whole; what else comes is for nobody.
PartFailed(c) ==
    /\ c.kind \in Parts /\ c.live /\ c.step \in {"unauthorized", "failed"}
    /\ calls' = {d \in calls : d.kind \notin Parts}
    /\ page' = [page EXCEPT !.state = "error"]
    /\ UNCHANGED <<account, cookie, screen, histories, actions, faults>>

\* The fetches that what is on the page stems from.  Cards and chart stand behind a
\* skeleton while a fetch is under way; the table stays, also under the line that says
\* that the last fetch failed.
PartsShown == screen = "analytics"
KpiCards == IF page.state = "loading" THEN {} ELSE {page.shown["wards"], page.shown["corps"]}
TrendChart == IF page.state = "loading" THEN {} ELSE {page.shown["trend"]}
WardTable == {page.shown["wards"]}
AnalyticsError == PartsShown /\ page.state = "error"

RetryAnalytics ==
    /\ AnalyticsError
    /\ Act
    /\ page' = [page EXCEPT !.state = "loading", !.fetch = @ + 1, !.got = {}]
    /\ calls' = calls \cup {Asking(p, None, None, cookie) : p \in Parts}
    /\ UNCHANGED <<account, cookie, screen, histories, faults>>

\* The map fetches its wards by itself, once; a failure is said above it and stays.
ChoroplethMap(c) ==
    /\ c.kind = "boundaries" /\ c.live /\ c.step \notin Underway
    /\ calls' = calls \ {c}
    /\ page' = [page EXCEPT !.map = IF c.step = "done" THEN "data" ELSE "error"]
    /\ UNCHANGED <<account, cookie, screen, histories, actions, faults>>

\* A ward clicked on the map narrows the table to its row until that is cleared.
SelectWard(selected) ==
    /\ PartsShown /\ page.ward # selected
    /\ selected => page.map = "data"
    /\ page' = [page EXCEPT !.ward = selected]
    /\ UNCHANGED <<account, cookie, screen, calls, histories, actions, faults>>

-----------------------------------------------------------------------------
(* The profile page.                                                       *)

ProfileError == screen = "profile" /\ page.state = "error"
ProfileShown == screen = "profile" /\ page.state = "data"
SaveOffered == ProfileShown /\ page.displayName # page.initialName /\ ~page.saving
ChangeOffered == ProfileShown /\ ~page.changing

Loaded(c) ==
    /\ c.kind = "me" /\ c.live /\ c.step \notin Underway
    /\ IF c.step = "unauthorized" THEN ShowLogin("router", calls \ {c})
       ELSE /\ page' = IF c.step = "done"
                       THEN [page EXCEPT !.state = "data", !.displayName = c.ans,
                                         !.initialName = c.ans]
                       ELSE [page EXCEPT !.state = "error"]
            /\ calls' = calls \ {c}
            /\ UNCHANGED <<screen, leftLogin>>
    /\ UNCHANGED <<account, cookie, ours, applied, actions, faults>>

RetryProfile ==
    /\ ProfileError
    /\ Act
    /\ page' = [page EXCEPT !.state = "loading"]
    /\ Ask("me", None, None)
    /\ UNCHANGED <<account, cookie, screen, histories, faults>>

SetDisplayNameOnly(n) ==
    /\ ProfileShown /\ page.displayName # n
    /\ page' = [page EXCEPT !.displayName = n]
    /\ UNCHANGED <<account, cookie, screen, calls, histories, actions, faults>>

\* The field can be typed into at any time, also while a name is being saved.
SetDisplayName(n) ==
    /\ ProfileShown /\ page.displayName # n
    /\ page' = [page EXCEPT !.displayName = n, !.said = "none"]
    /\ UNCHANGED <<account, cookie, screen, calls, histories, actions, faults>>

HandleSaveProfile ==
    /\ SaveOffered
    /\ Act
    /\ page' = [page EXCEPT !.saving = TRUE, !.said = "none"]
    /\ Ask("name", page.displayName, None)
    /\ UNCHANGED <<account, cookie, screen, histories, faults>>

\* The answer's name replaces what was typed meanwhile.
NameAnswered(c) ==
    /\ c.kind = "name" /\ c.live /\ c.step \notin Underway
    /\ IF c.step = "unauthorized" THEN ShowLogin("router", calls \ {c})
       ELSE /\ page' = IF c.step = "done"
                       THEN [page EXCEPT !.saving = FALSE, !.said = "saved",
                                         !.displayName = c.ans, !.initialName = c.ans]
                       ELSE [page EXCEPT !.saving = FALSE, !.said = "failed"]
            /\ calls' = calls \ {c}
            /\ UNCHANGED <<screen, leftLogin>>
    /\ UNCHANGED <<account, cookie, ours, applied, actions, faults>>

\* The three password fields are filled.
TypePasswords(p, q, same) ==
    /\ ProfileShown
    /\ <<p, q, same>> # <<page.current, page.next, page.confirmed>>
    /\ Act
    /\ page' = [page EXCEPT !.current = p, !.next = q, !.confirmed = same, !.told = "none"]
    /\ UNCHANGED <<account, cookie, screen, calls, histories, faults>>

HandleChangePassword ==
    /\ ChangeOffered
    /\ page.current # None /\ page.next # None
    /\ IF page.confirmed
       THEN /\ page' = [page EXCEPT !.changing = TRUE, !.told = "none"]
            /\ Ask("password", page.current, page.next)
            /\ applied' = FALSE
       ELSE /\ page.told # "mismatch"
            /\ page' = [page EXCEPT !.told = "mismatch"]
            /\ UNCHANGED <<calls, applied>>
    /\ UNCHANGED <<account, cookie, screen, leftLogin, ours, actions, faults>>

\* No answer of the handler is a success to apiFetch: its 200 has no body to parse.
PasswordAnswered(c) ==
    /\ c.kind = "password" /\ c.live /\ c.step \notin Underway
    /\ calls' = calls \ {c}
    /\ page' = [page EXCEPT !.changing = FALSE, !.current = None, !.next = None,
                            !.confirmed = FALSE,
                            !.told = IF c.step = "done" THEN "updated" ELSE "failed"]
    /\ UNCHANGED <<account, cookie, screen, histories, actions, faults>>

-----------------------------------------------------------------------------
(* The handlers, behind require_auth except for the sign-in.               *)

Move(c, step, ans) == calls' = (calls \ {c}) \cup {[c EXCEPT !.step = step, !.ans = ans]}

Refuse(c) ==
    /\ c.step = "asked" /\ c.kind # "login" /\ ~c.auth
    /\ Move(c, "unauthorized", None)
    /\ UNCHANGED <<account, cookie, screen, page, histories, actions, faults>>

ServeLogin(c) ==
    /\ c.step = "asked" /\ c.kind = "login"
    /\ Move(c, IF c.arg = password THEN "done" ELSE "refused", None)
    /\ UNCHANGED <<account, cookie, screen, page, histories, actions, faults>>

\* nginx answers 429 for it.
LimitLogin(c) ==
    /\ c.step = "asked" /\ c.kind = "login"
    /\ Fault
    /\ Move(c, "limited", None)
    /\ UNCHANGED <<account, cookie, screen, page, histories, actions>>

ServeRead(c) ==
    /\ c.step = "asked" /\ c.auth
    /\ c.kind \in Reads \cup {"me"}
    /\ Move(c, "done", IF c.kind = "me" THEN name ELSE None)
    /\ UNCHANGED <<account, cookie, screen, page, histories, actions, faults>>

ServeLogoutUnset(c) ==
    /\ c.step = "asked" /\ c.auth /\ c.kind = "logout"
    /\ Move(c, "done", None)
    /\ UNCHANGED <<account, cookie, screen, page, histories, actions, faults>>

\* 200 without a body, and the header that removes the cookie.
ServeLogout(c) ==
    /\ c.step = "asked" /\ c.auth /\ c.kind = "logout"
    /\ Move(c, "unreadable", None)
    /\ UNCHANGED <<account, cookie, screen, page, histories, actions, faults>>

UpdateProfile(c) ==
    /\ c.step = "asked" /\ c.auth /\ c.kind = "name"
    /\ name' = c.arg
    /\ ours' = c.live
    /\ Move(c, "done", c.arg)
    /\ UNCHANGED <<password, cookie, screen, page, leftLogin, applied, actions, faults>>

\* The new password must differ, and the current one be that of the row that is read.
VerifyPassword(c) ==
    /\ c.step = "asked" /\ c.auth /\ c.kind = "password"
    /\ Move(c, IF c.new # c.arg /\ c.arg = password THEN "verified" ELSE "refused", None)
    /\ UNCHANGED <<account, cookie, screen, page, histories, actions, faults>>

\* Then the row is written, whatever it holds by now; 200 without a body.
ChangePassword(c) ==
    /\ c.step = "verified"
    /\ password' = c.new
    /\ applied' = TRUE
    /\ Move(c, "unreadable", None)
    /\ UNCHANGED <<name, cookie, screen, page, leftLogin, ours, actions, faults>>

\* What the browser may make of the Set-Cookie of an answer whose body nobody gets.
Taken(c) == CASE c.kind = "login" /\ c.step = "done"        -> {cookie, TRUE}
              [] c.kind = "logout" /\ c.step = "unreadable" -> {cookie, FALSE}
              [] OTHER                                      -> {cookie}

\* A call that would write may be at work when its page has given it up: neither the
\* proxy nor the handler learns of that.
GoingOn(c) ==
    IF c.kind \in {"name", "password"} /\ c.step \in Underway
    THEN {[c EXCEPT !.live = FALSE]} ELSE {}

\* The page's fetch rejects: its call or the answer is lost, before or after its
\* effect, or it ran out of time and goes on without the page.
Lose(c) ==
    /\ c.step # "failed" /\ c.live
    /\ Fault
    /\ \E rest \in SUBSET GoingOn(c) :
          calls' = (calls \ {c}) \cup {[c EXCEPT !.step = "failed", !.ans = None]} \cup rest
    /\ cookie' \in Taken(c)
    /\ UNCHANGED <<account, screen, page, histories, actions>>

\* Another session of the same account saves a name.
OtherSaves(n) ==
    /\ n # name
    /\ Fault
    /\ name' = n
    /\ ours' = FALSE
    /\ UNCHANGED <<password, cookie, screen, page, calls, leftLogin, applied, actions>>

\* The answer to a call that was left behind is for nobody.
Belated(c) ==
    /\ ~c.live /\ c.step \notin Underway
    /\ calls' = calls \ {c}
    /\ cookie' \in Taken(c)
    /\ UNCHANGED <<account, screen, page, histories, actions, faults>>

Serving(c) == \/ Refuse(c) \/ ServeLogin(c) \/ ServeRead(c) \/ ServeLogout(c)
              \/ UpdateProfile(c) \/ VerifyPassword(c) \/ ChangePassword(c)
Handling(c) == \/ LoggedIn(c) \/ NotLoggedIn(c) \/ LoggedOut(c)
               \/ IntakeAnswered(c) \/ StatsAnswered(c)
               \/ ReportsAnswered(c) \/ PartAnswered(c) \/ PartFailed(c) \/ ChoroplethMap(c)
               \/ Loaded(c) \/ NameAnswered(c) \/ PasswordAnswered(c) \/ Belated(c)
Filling == \/ \E p \in Password : TypePassword(p)
           \/ \E n \in Name : SetDisplayName(n)
           \/ \E p \in Password, q \in Password, same \in BOOLEAN : TypePasswords(p, q, same)
           \/ \E category \in BOOLEAN, status \in BOOLEAN : SetMapFilter(category, status)
           \/ \E selected \in BOOLEAN : SelectWard(selected)
Clicking == \/ \E s \in Screens : Open(s)
            \/ OpenUnverified \/ OpenLogin \/ OpenProfile
            \/ HandleSubmit \/ HandleLogout \/ HandleSaveProfile \/ HandleChangePassword
            \/ \E p \in Period : SetActivePeriod(p)
            \/ RetryStats \/ RetryReports \/ RetryAnalytics \/ RetryProfile

PortalNext ==
    \/ Clicking \/ Filling \/ CountDown \/ Expire
    \/ \E c \in calls : Serving(c) \/ Handling(c) \/ LimitLogin(c) \/ Lose(c)
    \/ \E n \in Name : OtherSaves(n)

PortalSpec == PortalInit /\ [][PortalNext]_portalVars

\* Calls are served, their answers handled, and timers fire.
PortalFairSpec == /\ PortalSpec
            /\ WF_portalVars(\E c \in calls : Serving(c))
            /\ WF_portalVars(\E c \in calls : Handling(c))
            /\ WF_portalVars(CountDown)

-----------------------------------------------------------------------------
(* What the tab promises.                                                  *)

\* The states of each page.
LoginStates == [by : {"visit", "guard", "router", "logout"}, typed : Password \cup {None}, busy : BOOLEAN,
                error : {"none", "refused", "limited", "failed"}, countdown : 0 .. LockSeconds]
DashboardStates == [stats : {"loading", "error", "data"}, period : Period,
                    bars : Period \cup {None}]
MapStates == [state : {"loading", "error", "data"}, category : BOOLEAN, status : BOOLEAN]
AnalyticsStates == [state : {"loading", "error", "data"}, fetch : Nat, got : SUBSET Parts,
                    shown : [Parts -> Nat], map : {"loading", "error", "data"}, ward : BOOLEAN]
ProfileStates == [state : {"loading", "error", "data"}, displayName : Name \cup {None},
                  initialName : Name \cup {None}, saving : BOOLEAN,
                  said : {"none", "saved", "failed"}, current : Password \cup {None},
                  next : Password \cup {None}, confirmed : BOOLEAN, changing : BOOLEAN,
                  told : {"none", "mismatch", "updated", "failed"}]

PortalTypeOK ==
    /\ name \in Name /\ password \in Password
    /\ cookie \in BOOLEAN
    /\ calls \subseteq Call
    /\ screen \in Screens \cup {"login"}
    /\ screen = "login"     => page \in LoginStates
    /\ screen = "dashboard" => page \in DashboardStates
    /\ screen = "map"       => page \in MapStates
    /\ screen = "analytics" => page \in AnalyticsStates
    /\ screen = "profile"   => page \in ProfileStates
    /\ histories \in BOOLEAN \X BOOLEAN \X BOOLEAN
    /\ actions \in 0 .. MaxActions /\ faults \in 0 .. MaxFaults

\* While the profile page says that the name is saved, the field, the page's idea of
\* the stored name and the row agree, unless the row was written since by another
\* session, or by a save that its page left or gave up (profile/page.tsx:88).
SavedIsStored ==
    screen = "profile" /\ page.said = "saved" /\ ours =>
        page.displayName = name /\ page.initialName = name

\* Having signed out, the browser holds no token, unless a call was lost or a sign-in
\* was left under way (AdminSidebar.tsx:74, route.ts:33).
LogoutEnds ==
    screen = "login" /\ page.by = "logout" /\ faults = 0 /\ ~leftLogin => ~cookie

\* Cards, chart and table of the analytics page always stem from one fetch, also after
\* one of its calls failed and it was fetched again (analytics/page.tsx:36).
AnalyticsOfOneFetch ==
    PartsShown => \A m, n \in KpiCards \cup TrendChart \cup WardTable : m = n

Waiting ==
    \/ screen = "login" /\ (page.busy \/ page.countdown > 0)
    \/ screen = "dashboard" /\ page.stats = "loading"
    \/ screen \in {"map", "analytics"} /\ page.state = "loading"
    \/ screen = "profile" /\ (page.state = "loading" \/ page.saving \/ page.changing)

\* Whatever fails, no page waits forever: forms unlock and spinners end.
PagesSettle == Waiting ~> ~Waiting

\* After "Could not update password" the password is the old one, if no call was lost
\* (docs/ac/admin-phase2-ac.md:459: on a 200, changePassword resolves).
RefusalChangesNothing ==
    screen = "profile" /\ page.told = "failed" /\ faults = 0 => ~applied
=============================================================================
