----------------------------- MODULE PreviewContent -----------------------------
(***************************************************************************)
(* How a Preview comes to be served: the stages of startPreview            *)
(* (src/runtime/e2b-runtime.ts, e2b-preview.ts), the capability that makes *)
(* a content URL (src/server/preview-capability.ts) and the handler that   *)
(* serves it (src/server/preview-api.ts).  Vite runs with the URL of its   *)
(* session as its base, so the URL that is written into its command line,  *)
(* and each of those given out later, must be one and the same.  Whether a *)
(* Preview may start at all is the subject of ProjectPreview.              *)
(*                                                                         *)
(* The clock counts half seconds, a capability whole ones.  Vite's server, *)
(* which alone can hold the port (--strictPort), is external.              *)
(***************************************************************************)
EXTENDS Integers

CONSTANTS Duration,       \* sessionDurationMs, in half seconds
          MaxLifetime,    \* maximumCapabilityLifetimeSeconds
          ClockSkew,      \* futureClockSkewSeconds
          MaxSessions,    \* bound on the Previews that are started
          LastInstant     \* bound on the clock

ASSUME ContentAssumption == Duration \in Nat /\ ClockSkew \in Nat /\ MaxSessions \in Nat

VARIABLES clock,
          shown,          \* the row of preview_sessions
          stage,          \* of start(), for the newest session
          vites,          \* the Vite process of each session
          urls            \* the content URLs that browsers have got

contentVars == <<clock, shown, stage, vites, urls>>

Sessions == 1 .. MaxSessions
NoRow    == [id |-> 0, status |-> "none", created |-> 0, expires |-> 0]

Second(t) == t \div 2

\* createClaims: what a token, hence a content URL, consists of.
Claims(id, issuedAt, expiresAt) ==
    [session |-> id, iat |-> Second(issuedAt), exp |-> Second(expiresAt)]

CanIssue(u) == u.exp > u.iat /\ u.exp - u.iat <= MaxLifetime

NoUrl == [session |-> 0, iat |-> 0, exp |-> 0]

ContentInit ==
    /\ clock = 0 /\ shown = NoRow /\ stage = "idle" /\ urls = {}
    /\ vites = [p \in Sessions |-> [state |-> "none", base |-> NoUrl]]

Alive(p)     == vites[p].state \in {"starting", "listening"}
Listening    == {p \in Sessions : vites[p].state = "listening"}

\* The session of the start() that is under way: the newest, because the next start() of the
\* Project is taken up when this one has ended.
Owner == CHOOSE p \in 0 .. MaxSessions :
             /\ p = 0 \/ vites[p].base # NoUrl
             /\ \A s \in Sessions : vites[s].base # NoUrl => s <= p

Exited(p) == [vites EXCEPT ![p].state = "exited"]

\* Mutant: the capability is issued at the time of the request.
ContentUrlOfNow == Claims(shown.id, clock, shown.expires)

\* toPreviewResponse: the URL of a row that is running, issued anew each time.
ContentUrl == Claims(shown.id, shown.created, shown.expires)

-----------------------------------------------------------------------------
Tick ==
    /\ clock < LastInstant /\ clock' = clock + 1
    /\ UNCHANGED <<shown, stage, vites, urls>>

\* start(), as far as the claim and the capability of createContentBasePath, which Vite
\* will get as its --base.
StartContent ==
    /\ shown = NoRow /\ stage = "idle"
    /\ \E id \in Sessions :
          /\ \A p \in Sessions : p < id <=> vites[p].base # NoUrl
          /\ shown' = [id |-> id, status |-> "starting", created |-> clock,
                       expires |-> clock + Duration]
          /\ LET url == Claims(id, clock, clock + Duration) IN
               /\ vites' = [vites EXCEPT ![id].base = url]
               /\ stage' = IF CanIssue(url) THEN "attach" ELSE "failed"
    /\ UNCHANGED <<clock, urls>>

\* The way to a running sandbox and a written config: connect again when the traffic token
\* is missing or a write fails, then write again, then write with a command.
Prepare ==
    /\ \/ stage = "attach" /\ stage' \in {"write_config", "failed"}
       \/ stage = "write_config" /\ stage' \in {"command_start", "write_config_retry", "failed"}
       \/ stage = "write_config_retry" /\ stage' \in {"command_start", "write_config_command"}
       \/ stage = "write_config_command" /\ stage' \in {"command_start", "failed"}
    /\ UNCHANGED <<clock, shown, vites, urls>>

\* commands.run with createE2BVitePreviewCommand, which may fault after the start.
RunVite ==
    /\ stage = "command_start"
    /\ \/ /\ vites' = [vites EXCEPT ![Owner].state = "starting"]
          /\ stage' \in {"wait_ready", "failed"}
       \/ vites' = Exited(Owner) /\ stage' = "failed"
    /\ UNCHANGED <<clock, shown, urls>>

\* Vite takes the port, or exits when another process holds it.
TakePort(p) ==
    /\ vites[p].state = "starting"
    /\ vites' = IF Listening = {} THEN [vites EXCEPT ![p].state = "listening"] ELSE Exited(p)
    /\ UNCHANGED <<clock, shown, stage, urls>>

\* It crashes, or its processTimeoutMs is over.
ViteExits(p) ==
    /\ Alive(p) /\ vites' = Exited(p)
    /\ UNCHANGED <<clock, shown, stage, urls>>

\* waitForE2BPreviewReady: the process is listed, then the port is asked for the content
\* path, which Vite answers with 404 when it is not below its base; until the deadline.
WaitReady ==
    /\ stage = "wait_ready"
    /\ stage' \in IF Alive(Owner) THEN {"probe", "kill"} ELSE {"kill"}
    /\ UNCHANGED <<clock, shown, vites, urls>>

\* Mutant: any answer on the port will do.
ProbeAnyAnswer ==
    /\ stage = "probe"
    /\ stage' \in IF Listening # {} THEN {"disconnect"} ELSE {"wait_ready", "kill"}
    /\ UNCHANGED <<clock, shown, vites, urls>>

Probe ==
    /\ stage = "probe"
    /\ stage' \in IF \E p \in Listening : vites[p].base = vites[Owner].base
                  THEN {"disconnect"} ELSE {"wait_ready", "kill"}
    /\ UNCHANGED <<clock, shown, vites, urls>>

Disconnect ==
    /\ stage = "disconnect" /\ stage' \in {"mark_running", "kill"}
    /\ UNCHANGED <<clock, shown, vites, urls>>

\* A failure after the start: the process is killed, and it does not matter if that faults.
KillVite ==
    /\ stage = "kill" /\ stage' = "failed"
    /\ vites' \in {vites, Exited(Owner)}
    /\ UNCHANGED <<clock, shown, urls>>

\* markRunning and the answer: the row has become running; it is gone; or the statement
\* throws, and the row is released although Vite runs.
MarkContentRunning ==
    /\ stage = "mark_running"
    /\ \/ /\ shown.id = Owner /\ shown.status = "starting"
          /\ shown' = [shown EXCEPT !.status = "running"]
          /\ urls' = urls \cup {ContentUrl} /\ stage' = "idle"
       \/ shown.id # Owner /\ stage' = "kill" /\ UNCHANGED <<shown, urls>>
       \/ shown.id = Owner /\ stage' = "failed" /\ UNCHANGED <<shown, urls>>
    /\ UNCHANGED <<clock, vites>>

ReleaseRow ==
    /\ stage = "failed" /\ stage' = "idle"
    /\ shown' = IF shown.id = Owner THEN NoRow ELSE shown
    /\ UNCHANGED <<clock, vites, urls>>

\* inspect(): the URL again, or the row of a process that is gone is released.
InspectContent ==
    /\ shown.status = "running"
    /\ \/ Alive(shown.id) /\ urls' = urls \cup {ContentUrl} /\ UNCHANGED shown
       \/ ~Alive(shown.id) /\ shown' = NoRow /\ UNCHANGED urls
    /\ UNCHANGED <<clock, stage, vites>>

\* stop() and expire(): the process is killed, and then the row released; when the kill
\* faults the row stays.  Only the expiry takes a session that is starting.
StopContent ==
    /\ \/ shown.status = "running"
       \/ shown.status = "starting" /\ clock >= shown.expires
    /\ shown' = NoRow
    /\ vites' = IF shown.status = "running" THEN Exited(shown.id) ELSE vites
    /\ UNCHANGED <<clock, stage, urls>>

-----------------------------------------------------------------------------
\* verify, at an instant of the clock of the Worker that serves the request
Verifies(u, t) ==
    /\ CanIssue(u)
    /\ u.iat <= Second(t) + ClockSkew
    /\ u.exp > Second(t)

\* The contentHandler and fetch(): the process on the port answers what is below its base.
ContentAnswer(u, t) ==
    IF ~Verifies(u, t) \/ shown.id # u.session \/ shown.status # "running" THEN "not_found"
    ELSE IF Listening = {} THEN "provider_error"
    ELSE IF \E p \in Listening : vites[p].base = u THEN "content"
    ELSE "wrong_base"

ContentNext ==
    \/ Tick \/ StartContent \/ Prepare \/ RunVite \/ WaitReady \/ Probe \/ Disconnect \/ KillVite
    \/ MarkContentRunning \/ ReleaseRow \/ InspectContent \/ StopContent
    \/ \E p \in Sessions : TakePort(p) \/ ViteExits(p)

ContentSpec == ContentInit /\ [][ContentNext]_contentVars

-----------------------------------------------------------------------------
\* A content URL is good exactly as long as its session: whichever request gave it out, and
\* on a Worker whose clock is behind.  While the session's process lives it is that process
\* which answers, never one that an earlier session has left on the port.
ContentUrlFollowsSession ==
    \A u \in urls, t \in clock - 2 * ClockSkew .. clock :
        LET answer == ContentAnswer(u, t) IN
            /\ answer # "not_found" <=>
                   /\ shown.id = u.session /\ shown.status = "running"
                   /\ Second(t) < Second(shown.expires)
            /\ answer = "wrong_base" => ~Alive(u.session)
=============================================================================
