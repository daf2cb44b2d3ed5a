----------------------------- MODULE ApiSession -----------------------------
(***************************************************************************)
(* The cloud session of one or several integration hubs: request() and     *)
(* async_authenticate() of solixapi/session.py, run by asyncio tasks that  *)
(* share one event loop, the session attributes, the authentication cache  *)
(* file on disk and the module level dictionary API_HEADERS.               *)
(*                                                                         *)
(* A task's activation of request() is a frame of its stack; the login     *)
(* request that async_authenticate() awaits is a second frame on top of it. *)
(* Code between two awaits is not interrupted: while it runs, "running" is *)
(* {t}, and every await gives the loop back.  The repetition of a request  *)
(* is the last thing its activation does, so it reuses the frame.          *)
(***************************************************************************)
EXTENDS Naturals, Sequences

CONSTANTS
    Sessions,     \* client sessions, one per hub (AnkerSolixClientSession)
    Tasks,        \* asyncio tasks that call the sessions
    Owner,        \* the session each task calls
    Account,      \* the account of each session: it names the cache file
    Uses,         \* what each task calls: "request", "setup", "dialog"
    Faults,       \* the unhealthy answers the cloud may give
    Persistent,   \* those of them it may give without end
    MaxFaults,    \* bound: the other unhealthy answers in a behaviour
    MaxLogins,    \* bound: access tokens the cloud hands out
    MaxKicks,     \* bound: tokens the cloud drops or lets expire
    MaxCalls,     \* bound: calls of each task
    MaxRestarts   \* bound: restarts of Home Assistant

FaultKinds == {"limit", "gateway", "busy", "forbidden", "error"}

ASSUME SessionAssumption ==
    /\ Owner \in [Tasks -> Sessions]
    /\ Uses \in [Tasks -> SUBSET {"request", "setup", "dialog"}]
    /\ Faults \subseteq FaultKinds /\ Persistent \subseteq Faults
    /\ MaxFaults \in Nat /\ MaxLogins \in Nat /\ MaxKicks \in Nat
    /\ MaxCalls \in Nat /\ MaxRestarts \in Nat

VARIABLES
    running,      \* the task whose code the event loop is executing, if any
    stack,        \* per task: its activations of request()
    loggedIn,     \* per session: _loggedIn
    token,        \* per session: _token, 0 for None
    retry,        \* per session: _retry_attempt
    fileTime,     \* per session: _authFileTime
    file,         \* per account: the authentication cache file
    clock,        \* per account: time stamps given to the file so far
    header,       \* the token in the shared API_HEADERS, 0 if none yet
    issued,       \* the session each token was handed out to
    dropped,      \* tokens the cloud no longer accepts
    expired,      \* tokens whose expiration date is less than 60 s ahead
    repeats,      \* per task: how often its current call was repeated, by cause
    result,       \* per task: outcome of its last call
    disturbed,    \* per task: its last call met an unhealthy answer
    calls, faults, kicks, restarts  \* counters behind the bounds

connVars == <<loggedIn, token, retry, fileTime>>
fileVars == <<file, clock>>
cloudVars == <<issued, dropped, expired>>
histVars == <<repeats, result, disturbed>>
boundVars == <<calls, faults, kicks, restarts>>
vars == <<running, stack, connVars, fileVars, header, cloudVars, histVars,
          boundVars>>

----------------------------------------------------------------------------
(* Types *)

\* What the retry flag can hold: False, True, 429, one of 502/504/522, 21105.
Flag == {"no", "yes", "limit", "gateway", "busy"}

\* Code that runs without an await, and points where the task is suspended.
SyncPc == {"entry", "check", "header", "restart", "auth"}
AwaitPc == {"delay", "sent", "backoff", "load", "apply", "login", "open",
            "write", "close", "done"}

Cause == {"limit", "gateway", "busy", "kicked", "expired", "login"}
RepeatCap == 2

Frame == [ep : {"api", "login", "auth"}, pc : SyncPc \cup AwaitPc,
          why : {"none", "expired", "check", "kicked"}, tok : Nat, ino : Nat]
FileState == [ino : Nat, ver : Nat, tok : Nat]

NoFile == [ino |-> 0, ver |-> 0, tok |-> 0]
NewFrame(ep, pc) ==
    [ep |-> ep, pc |-> pc, why |-> "none", tok |-> 0, ino |-> 0]

Files == {Account[s] : s \in Sessions}
File(s) == file[Account[s]]
Exists(s) == File(s) # NoFile
Tokens == 1 .. Len(issued)
Accepted(n) == n \in Tokens \ dropped

Depth(t) == Len(stack[t])
Top(t) == stack[t][Depth(t)]
At(t, pc) == stack[t] # <<>> /\ Top(t).pc = pc

\* The task resumes from an await only when no other task is being run.
Resumes(t, pc) == running = {} /\ At(t, pc)
Runs(t, pc) == running = {t} /\ At(t, pc)

Put(t, f) == stack' = [stack EXCEPT ![t][Depth(t)] = f]
Goto(t, pc) == Put(t, [Top(t) EXCEPT !.pc = pc])

\* Leaves the data of the last authentication or answer behind.
Proceed(t, pc) == Put(t, NewFrame(Top(t).ep, pc))

\* An exception leaves every activation of the task: no handler on the way
\* encloses the nested calls.
Raise(t) ==
    /\ stack' = [stack EXCEPT ![t] = <<>>]
    /\ result' = [result EXCEPT ![t] = "error"]
    /\ running' = {}

Return(t) ==
    /\ stack' = [stack EXCEPT ![t] = <<>>]
    /\ result' = [result EXCEPT ![t] = "ok"]
    /\ running' = {}

Counted(t, cause) ==
    LET c == IF Top(t).ep = "login" THEN "login" ELSE cause
    IN  [repeats EXCEPT ![t][c] = IF @ < RepeatCap THEN @ + 1 ELSE @]

----------------------------------------------------------------------------
(* request(): from the call to the answer *)

Init ==
    /\ running = {} /\ stack = [t \in Tasks |-> <<>>]
    /\ loggedIn = [s \in Sessions |-> FALSE]
    /\ token = [s \in Sessions |-> 0]
    /\ retry = [s \in Sessions |-> "no"]
    /\ fileTime = [s \in Sessions |-> 0]
    /\ file = [a \in Files |-> NoFile] /\ clock = [a \in Files |-> 0]
    /\ header = 0 /\ issued = <<>> /\ dropped = {} /\ expired = {}
    /\ repeats = [t \in Tasks |-> [c \in Cause |-> 0]]
    /\ result = [t \in Tasks |-> "none"]
    /\ disturbed = [t \in Tasks |-> FALSE]
    /\ calls = [t \in Tasks |-> 0] /\ faults = 0 /\ kicks = 0 /\ restarts = 0

\* A coroutine of the integration awaits request() for some endpoint,
\* async_authenticate() as the setup of a hub does, or, in the configuration
\* dialog, async_authenticate(restart=True) to test the credentials.
FirstFrame(use) ==
    CASE use = "request" -> NewFrame("api", "entry")
      [] use = "setup" -> NewFrame("auth", "auth")
      [] use = "dialog" -> NewFrame("auth", "restart")

Call(t) ==
    /\ running = {} /\ stack[t] = <<>> /\ calls[t] < MaxCalls
    /\ \E use \in Uses[t] : stack' = [stack EXCEPT ![t] = <<FirstFrame(use)>>]
    /\ running' = {t}
    /\ calls' = [calls EXCEPT ![t] = @ + 1]
    /\ repeats' = [repeats EXCEPT ![t] = [c \in Cause |-> 0]]
    /\ result' = [result EXCEPT ![t] = "none"]
    /\ disturbed' = [disturbed EXCEPT ![t] = FALSE]
    /\ UNCHANGED <<connVars, fileVars, header, cloudVars, faults, kicks,
                   restarts>>

\* A token about to expire is replaced before anything else.
CheckExpiration(t) ==
    /\ Runs(t, "entry")
    /\ \/ /\ token[Owner[t]] \in expired
          /\ Put(t, [Top(t) EXCEPT !.pc = "restart", !.why = "expired"])
          /\ repeats' = Counted(t, "expired")
       \/ /\ token[Owner[t]] \notin expired
          /\ Goto(t, "check")
          /\ UNCHANGED repeats
    /\ UNCHANGED <<running, connVars, fileVars, header, cloudVars, result,
                   disturbed, boundVars>>

MustAuthenticate(s) ==
    ~loggedIn[s] \/ (Exists(s) /\ fileTime[s] # File(s).ver)

\* Any request but the login itself wants a logged in session and the token
\* of the current cache file.  The result of the authentication is not used.
CheckLogin(t) ==
    /\ Runs(t, "check")
    /\ IF Top(t).ep = "api" /\ MustAuthenticate(Owner[t])
       THEN Put(t, [Top(t) EXCEPT !.pc = "auth", !.why = "check"])
       ELSE Goto(t, "header")
    /\ UNCHANGED <<running, connVars, fileVars, header, cloudVars, histVars,
                   boundVars>>

\* Faulty: goes to a state request() does not have.
GenerateHeaderLost(t) ==
    /\ Runs(t, "header")
    /\ Goto(t, "send")
    /\ running' = {}
    /\ UNCHANGED <<connVars, fileVars, header, cloudVars, histVars, boundVars>>

\* generate_header() writes the token into the dictionary all sessions share,
\* and the request keeps a reference to it while it waits for its delay.
GenerateHeader(t) ==
    LET tok == token[Owner[t]] IN
    /\ Runs(t, "header")
    /\ header' = IF tok # 0 THEN tok ELSE header
    /\ Goto(t, "delay")
    /\ running' = {}
    /\ UNCHANGED <<connVars, fileVars, cloudVars, histVars, boundVars>>

Send(t) ==
    /\ Resumes(t, "delay")
    /\ Put(t, [Top(t) EXCEPT !.pc = "sent", !.tok = header])
    /\ UNCHANGED <<running, connVars, fileVars, header, cloudVars, histVars,
                   boundVars>>

----------------------------------------------------------------------------
(* Answers of the cloud to an api request or to the login *)

\* 200 with data: the session is logged in and the retry flag is cleared.
AnswerOk(t) ==
    /\ Resumes(t, "sent") /\ Top(t).ep = "api" /\ Accepted(Top(t).tok)
    /\ loggedIn' = [loggedIn EXCEPT ![Owner[t]] = TRUE]
    /\ retry' = [retry EXCEPT ![Owner[t]] = "no"]
    /\ Return(t)
    /\ UNCHANGED <<token, fileTime, fileVars, header, cloudVars,
                   repeats, disturbed, boundVars>>

\* The login is answered with a new token; the caller goes on to save it.
AnswerLogin(t) ==
    LET below == stack[t][Depth(t) - 1] IN
    /\ Resumes(t, "sent") /\ Top(t).ep = "login" /\ Len(issued) < MaxLogins
    /\ issued' = Append(issued, Owner[t])
    /\ loggedIn' = [loggedIn EXCEPT ![Owner[t]] = TRUE]
    /\ retry' = [retry EXCEPT ![Owner[t]] = "no"]
    /\ stack' = [stack EXCEPT ![t] =
           Append(SubSeq(@, 1, Len(@) - 2),
                  [below EXCEPT !.pc = "open", !.tok = Len(issued) + 1])]
    /\ UNCHANGED <<running, token, fileTime, fileVars, header, dropped,
                   expired, histVars, boundVars>>

\* 401 or 403: authenticate again unless a retry is already marked.
Rejected(t) ==
    /\ \/ /\ retry[Owner[t]] = "no"
          /\ Put(t, [Top(t) EXCEPT !.pc = "restart", !.why = "kicked"])
          /\ repeats' = Counted(t, "kicked")
          /\ running' = {t}
          /\ UNCHANGED result
       \/ /\ retry[Owner[t]] # "no"
          /\ Raise(t)
          /\ UNCHANGED repeats
    /\ UNCHANGED <<connVars, fileVars, header, cloudVars, calls, kicks,
                   restarts>>

AnswerKicked(t) ==
    /\ Resumes(t, "sent") /\ Top(t).ep = "api" /\ ~Accepted(Top(t).tok)
    /\ Rejected(t)
    /\ UNCHANGED <<faults, disturbed>>

\* Unhealthy answers are counted up to their bound, and the first one always.
Fault(t, kind) ==
    /\ Resumes(t, "sent") /\ kind \in Faults
    /\ kind \in Persistent \/ faults < MaxFaults
    /\ faults' = IF faults = 0 \/ faults < MaxFaults THEN faults + 1 ELSE faults
    /\ disturbed' = [disturbed EXCEPT ![t] = TRUE]

AnswerForbidden(t) == Fault(t, "forbidden") /\ Rejected(t)

\* Faulty: the repetition is not remembered in the flag.
RepeatForgotten(t, kind) ==
    /\ Proceed(t, "backoff")
    /\ repeats' = Counted(t, kind)
    /\ UNCHANGED <<running, result, token, retry, fileTime, fileVars, header,
                   cloudVars, calls, kicks, restarts>>

\* Faulty: tests the flag for True only, not for the status of the last retry.
RepeatOrRaiseMarked(t, kind) ==
    /\ \/ /\ retry[Owner[t]] # "yes"
          /\ retry' = [retry EXCEPT ![Owner[t]] = kind]
          /\ repeats' = Counted(t, kind)
          /\ IF kind = "limit"
             THEN Proceed(t, "entry") /\ running' = {t}
             ELSE Proceed(t, "backoff") /\ UNCHANGED running
          /\ UNCHANGED result
       \/ /\ retry[Owner[t]] = "yes"
          /\ Raise(t)
          /\ UNCHANGED <<retry, repeats>>
    /\ UNCHANGED <<token, fileTime, fileVars, header, cloudVars, calls,
                   kicks, restarts>>

\* 429, 502/504/522 or a timeout, and code 21105: repeat the request unless
\* the flag says that this was done or must not be.  A busy answer is a valid
\* response of a logged in client.  All but 429 wait 2 to 5 seconds first.
RepeatOrRaise(t, kind) ==
    /\ \/ /\ retry[Owner[t]] \notin {"yes", kind}
          /\ retry' = [retry EXCEPT ![Owner[t]] = kind]
          /\ repeats' = Counted(t, kind)
          /\ IF kind = "limit"
             THEN Proceed(t, "entry") /\ running' = {t}
             ELSE Proceed(t, "backoff") /\ UNCHANGED running
          /\ UNCHANGED result
       \/ /\ retry[Owner[t]] \in {"yes", kind}
          /\ Raise(t)
          /\ UNCHANGED <<retry, repeats>>
    /\ UNCHANGED <<token, fileTime, fileVars, header, cloudVars, calls,
                   kicks, restarts>>

AnswerLimit(t) ==
    Fault(t, "limit") /\ RepeatOrRaise(t, "limit") /\ UNCHANGED loggedIn

AnswerGateway(t) ==
    Fault(t, "gateway") /\ RepeatOrRaise(t, "gateway") /\ UNCHANGED loggedIn

AnswerBusy(t) ==
    /\ Fault(t, "busy") /\ RepeatOrRaise(t, "busy")
    /\ loggedIn' = [loggedIn EXCEPT ![Owner[t]] = TRUE]

\* Any other failure is raised: an api error code in a valid response, or no
\* data, another http status or no connection.
AnswerError(t) ==
    /\ Fault(t, "error")
    /\ Raise(t)
    /\ \/ loggedIn' = [loggedIn EXCEPT ![Owner[t]] = TRUE]
       \/ UNCHANGED loggedIn
    /\ UNCHANGED <<token, retry, fileTime, fileVars, header, cloudVars,
                   repeats, calls, kicks, restarts>>

Backoff(t) ==
    /\ Resumes(t, "backoff")
    /\ Goto(t, "entry")
    /\ running' = {t}
    /\ UNCHANGED <<connVars, fileVars, header, cloudVars, histVars, boundVars>>

----------------------------------------------------------------------------
(* async_authenticate() *)

\* Faulty: keeps the cache file.
RestartKeepsFile(t) ==
    LET s == Owner[t] IN
    /\ Runs(t, "restart")
    /\ Goto(t, "auth")
    /\ loggedIn' = [loggedIn EXCEPT ![s] = FALSE]
    /\ token' = [token EXCEPT ![s] = 0]
    /\ fileTime' = [fileTime EXCEPT ![s] = 0]
    /\ UNCHANGED <<running, retry, fileVars, header, cloudVars, histVars,
                   boundVars>>

\* restart=True forgets the login and removes the cache file.
Restart(t) ==
    LET s == Owner[t] IN
    /\ Runs(t, "restart")
    /\ Goto(t, "auth")
    /\ loggedIn' = [loggedIn EXCEPT ![s] = FALSE]
    /\ token' = [token EXCEPT ![s] = 0]
    /\ fileTime' = [fileTime EXCEPT ![s] = 0]
    /\ file' = [file EXCEPT ![Account[s]] = NoFile]
    /\ UNCHANGED <<running, retry, clock, header, cloudVars, histVars,
                   boundVars>>

\* Faulty: the login may be retried like any request.
AuthenticateRetried(t) ==
    LET s == Owner[t] IN
    /\ Runs(t, "auth")
    /\ \/ /\ Exists(s)
          /\ Goto(t, "load")
          /\ running' = {}
       \/ /\ ~Exists(s)
          /\ stack' = [stack EXCEPT ![t] =
                 Append([@ EXCEPT ![Len(@)].pc = "login"],
                        NewFrame("login", "entry"))]
          /\ UNCHANGED running
    /\ UNCHANGED <<connVars, fileVars, header, cloudVars, histVars, boundVars>>

\* The cached login is loaded if there is one, else the cloud is asked for a
\* login that must not be retried.
Authenticate(t) ==
    LET s == Owner[t] IN
    /\ Runs(t, "auth")
    /\ \/ /\ Exists(s)
          /\ Goto(t, "load")
          /\ running' = {}
          /\ UNCHANGED retry
       \/ /\ ~Exists(s)
          /\ retry' = [retry EXCEPT ![s] = "yes"]
          /\ stack' = [stack EXCEPT ![t] =
                 Append([@ EXCEPT ![Len(@)].pc = "login"],
                        NewFrame("login", "entry"))]
          /\ UNCHANGED running
    /\ UNCHANGED <<loggedIn, token, fileTime, fileVars, header, cloudVars,
                   histVars, boundVars>>

\* A worker thread reads the file: its content, or {} if it is gone or empty.
ReadFile(t) ==
    /\ At(t, "load")
    /\ Put(t, [Top(t) EXCEPT !.pc = "apply", !.tok = File(Owner[t]).tok])
    /\ UNCHANGED <<running, connVars, fileVars, header, cloudVars, histVars,
                   boundVars>>

ClearedFlag(s) == IF retry[s] = "yes" THEN "no" ELSE retry[s]

\* Where the caller goes on after a login: "return" to its own caller, "raise",
\* or a point of request().
NextPc(f, in) ==
    CASE f.ep = "auth" -> "return"
      [] f.ep # "auth" /\ f.why = "expired" -> "check"
      [] f.ep # "auth" /\ f.why = "check" -> "header"
      [] OTHER -> IF in THEN "entry" ELSE "raise"

\* Faulty: the flag is set, where a valid login resets it.
UseLoginMarked(t) ==
    LET s == Owner[t]
        in == loggedIn[s] /\ Top(t).tok # 0
        next == NextPc(Top(t), in)
    IN
    /\ token' = [token EXCEPT ![s] = Top(t).tok]
    /\ loggedIn' = [loggedIn EXCEPT ![s] = in]
    /\ retry' = [retry EXCEPT ![s] = "yes"]
    /\ \/ next = "raise" /\ Raise(t)
       \/ next = "return" /\ Return(t)
       \/ /\ next \notin {"raise", "return"}
          /\ Proceed(t, next)
          /\ running' = {t}
          /\ UNCHANGED result
    /\ UNCHANGED <<fileVars, header, cloudVars, repeats, disturbed, boundVars>>

\* Takes the token of the login data.  Data without a token logs the session
\* off.
UseLogin(t) ==
    LET s == Owner[t]
        in == loggedIn[s] /\ Top(t).tok # 0
        next == NextPc(Top(t), in)
    IN
    /\ token' = [token EXCEPT ![s] = Top(t).tok]
    /\ loggedIn' = [loggedIn EXCEPT ![s] = in]
    /\ retry' = [retry EXCEPT ![s] = ClearedFlag(s)]
    /\ \/ next = "raise" /\ Raise(t)
       \/ next = "return" /\ Return(t)
       \/ /\ next \notin {"raise", "return"}
          /\ Proceed(t, next)
          /\ running' = {t}
          /\ UNCHANGED result
    /\ UNCHANGED <<fileVars, header, cloudVars, repeats, disturbed, boundVars>>

\* The time stamp of the cache file is taken after its content was read; the
\* missing file raises.
UseCachedLogin(t) ==
    LET s == Owner[t] IN
    /\ Resumes(t, "apply")
    /\ \/ /\ Exists(s)
          /\ fileTime' = [fileTime EXCEPT ![s] = File(s).ver]
          /\ UseLogin(t)
       \/ /\ ~Exists(s)
          /\ Raise(t)
          /\ UNCHANGED <<connVars, fileVars, header, cloudVars, repeats,
                         disturbed, boundVars>>

\* Opening the cache file for writing creates or truncates it.
OpenFile(t) ==
    LET a == Account[Owner[t]]
        now == clock[a] + 1
        ino == IF file[a] = NoFile THEN now ELSE file[a].ino
    IN
    /\ At(t, "open")
    /\ clock' = [clock EXCEPT ![a] = now]
    /\ file' = [file EXCEPT ![a] = [ino |-> ino, ver |-> now, tok |-> 0]]
    /\ Put(t, [Top(t) EXCEPT !.pc = "write", !.ino = ino])
    /\ UNCHANGED <<running, connVars, header, cloudVars, histVars, boundVars>>

\* The data is still in the buffer of the open file when its time stamp is read.
StampFile(t) ==
    LET s == Owner[t] IN
    /\ Resumes(t, "write")
    /\ \/ /\ Exists(s)
          /\ fileTime' = [fileTime EXCEPT ![s] = File(s).ver]
          /\ Goto(t, "close")
          /\ UNCHANGED <<running, result>>
       \/ /\ ~Exists(s)
          /\ Raise(t)
          /\ UNCHANGED fileTime
    /\ UNCHANGED <<loggedIn, token, retry, fileVars, header, cloudVars,
                   repeats, disturbed, boundVars>>

\* Faulty: the buffer is lost.
CloseFileEmpty(t) ==
    /\ At(t, "close")
    /\ Goto(t, "done")
    /\ UNCHANGED <<running, connVars, fileVars, header, cloudVars, histVars,
                   boundVars>>

\* Closing writes the buffer; the coarse clock of the file system may or may
\* not give a new time stamp, and a file removed meanwhile stays removed.
CloseFile(t) ==
    LET a == Account[Owner[t]] IN
    /\ At(t, "close")
    /\ \/ /\ file[a].ino = Top(t).ino
          /\ \E now \in {file[a].ver, clock[a] + 1} :
                /\ file' = [file EXCEPT ![a].ver = now, ![a].tok = Top(t).tok]
                /\ clock' = [clock EXCEPT ![a] = IF now > @ THEN now ELSE @]
       \/ /\ file[a].ino # Top(t).ino
          /\ UNCHANGED fileVars
    /\ Goto(t, "done")
    /\ UNCHANGED <<running, connVars, header, cloudVars, histVars, boundVars>>

UseNewLogin(t) ==
    /\ Resumes(t, "done")
    /\ UseLogin(t)
    /\ UNCHANGED fileTime

----------------------------------------------------------------------------
(* The environment *)

\* The cloud drops a token: the account logged in elsewhere, or the login was
\* withdrawn.
Kick ==
    /\ kicks < MaxKicks
    /\ \E n \in Tokens \ dropped : dropped' = dropped \cup {n}
    /\ kicks' = kicks + 1
    /\ UNCHANGED <<running, stack, connVars, fileVars, header, issued, expired,
                   histVars, calls, faults, restarts>>

\* A token reaches the end of its seven days.
Expire ==
    /\ kicks < MaxKicks /\ running = {}
    /\ \E n \in Tokens \ expired : expired' = expired \cup {n}
    /\ kicks' = kicks + 1
    /\ UNCHANGED <<running, stack, connVars, fileVars, header, issued, dropped,
                   histVars, calls, faults, restarts>>

\* Home Assistant stops and starts: only the cache files are left.
RestartHomeAssistant ==
    /\ restarts < MaxRestarts
    /\ restarts' = restarts + 1
    /\ running' = {} /\ stack' = [t \in Tasks |-> <<>>]
    /\ loggedIn' = [s \in Sessions |-> FALSE]
    /\ token' = [s \in Sessions |-> 0]
    /\ retry' = [s \in Sessions |-> "no"]
    /\ fileTime' = [s \in Sessions |-> 0]
    /\ header' = 0
    /\ result' = [t \in Tasks |-> "none"]
    /\ UNCHANGED <<fileVars, cloudVars, repeats, disturbed, calls, faults,
                   kicks>>

----------------------------------------------------------------------------

Code(t) ==
    \/ CheckExpiration(t) \/ CheckLogin(t) \/ GenerateHeader(t) \/ Send(t)
    \/ Backoff(t) \/ Restart(t) \/ Authenticate(t) \/ ReadFile(t)
    \/ UseCachedLogin(t) \/ OpenFile(t) \/ StampFile(t) \/ CloseFile(t)
    \/ UseNewLogin(t)

Answer(t) ==
    \/ AnswerOk(t) \/ AnswerLogin(t) \/ AnswerKicked(t) \/ AnswerForbidden(t)
    \/ AnswerLimit(t) \/ AnswerGateway(t) \/ AnswerBusy(t) \/ AnswerError(t)

Next ==
    \/ \E t \in Tasks : Call(t) \/ Code(t) \/ Answer(t)
    \/ Kick \/ Expire \/ RestartHomeAssistant

\* The event loop and the worker threads go on, and every request is answered
\* in the end: by the cloud or by the request timeout.
Fairness == \A t \in Tasks : WF_vars(Code(t)) /\ WF_vars(Answer(t))

Spec == Init /\ [][Next]_vars /\ Fairness

----------------------------------------------------------------------------
(* Properties *)

TypeOK ==
    /\ running \in SUBSET Tasks
    /\ stack \in [Tasks -> Seq(Frame)]
    /\ loggedIn \in [Sessions -> BOOLEAN] /\ token \in [Sessions -> Nat]
    /\ retry \in [Sessions -> Flag] /\ fileTime \in [Sessions -> Nat]
    /\ file \in [Files -> FileState] /\ clock \in [Files -> Nat]
    /\ header \in Nat /\ issued \in Seq(Sessions)
    /\ dropped \in SUBSET Nat /\ expired \in SUBSET Nat
    /\ repeats \in [Tasks -> [Cause -> 0 .. RepeatCap]]
    /\ result \in [Tasks -> {"none", "ok", "error"}]
    /\ disturbed \in [Tasks -> BOOLEAN]
    /\ calls \in [Tasks -> Nat]
    /\ faults \in Nat /\ kicks \in Nat /\ restarts \in Nat

\* A failed login is raised: it is neither repeated nor answered by another
\* login inside it (session.py:364 "to avoid retry on failed authentication").
LoginFailsFast == \A t \in Tasks : repeats[t]["login"] = 0 /\ Depth(t) <= 2

\* While no authentication is under way, a session that takes the time stamp
\* of the cache file for its own holds the token of that file.
CacheCoherent ==
    \A s \in Sessions :
        (/\ Exists(s) /\ fileTime[s] = File(s).ver
         /\ \A t \in Tasks : Owner[t] = s =>
               \A i \in 1 .. Depth(t) :
                   stack[t][i].pc \notin {"apply", "open", "write", "close", "done"})
        => token[s] = File(s).tok

\* Dropped or expired tokens and restarts are recovered from: while the cloud
\* has given no unhealthy answer, no call of the session fails.
HealthyCloudNeverFails == faults = 0 => \A t \in Tasks : result[t] # "error"

\* A call that meets no unhealthy answer itself does not fail: session.py:647
\* "reattempt authentication with same credentials if cached token was kicked
\* out".
KickedTokenRecovers ==
    \A t \in Tasks : ~disturbed[t] => result[t] # "error"

\* One cause repeats a request once: a second repetition for it needs another
\* kind of recovery within the same call.
SecondRepeatNeedsOtherCause ==
    \A t \in Tasks : \A c \in Cause \ {"kicked"} :
        repeats[t][c] > 1 => \E d \in Cause \ {c} : repeats[t][d] > 0

Idle(s) == \A t \in Tasks : Owner[t] = s => stack[t] = <<>>

\* Overlapping calls leave no mark behind: with a healthy cloud an idle session
\* is ready to retry, whatever its tasks did to each other's flag.
IdleIsReady == \A s \in Sessions : Idle(s) /\ faults = 0 => retry[s] = "no"

\* An empty cache file is only ever the work in progress of a task, or of one
\* that a restart of Home Assistant cut off.
CacheFileComplete ==
    \A s \in Sessions : Idle(s) /\ restarts = 0 /\ Exists(s) => File(s).tok # 0

\* Each hub asks the cloud with a token of its own account: INFO.md:253 allows
\* several hubs whose "Api requests can run in parallel".
OwnToken ==
    \A t \in Tasks :
        At(t, "sent") /\ Top(t).ep = "api" /\ Top(t).tok # 0 =>
            Account[issued[Top(t).tok]] = Account[Owner[t]]

\* Unhealthy answers after which request() may go on, other than those of one
\* kind of overload.
AnswerUnlike(t, kind) ==
    \/ kind # "limit" /\ AnswerLimit(t)
    \/ kind # "gateway" /\ AnswerGateway(t)
    \/ kind # "busy" /\ AnswerBusy(t)
    \/ AnswerForbidden(t) \/ AnswerKicked(t)

\* Every call returns or raises, however long the cloud goes on to answer 429,
\* to time out or to be busy: "repeat once" (session.py:666, 734).  The code
\* keeps this promise for each kind of answer by itself only.  Two kinds that
\* take turns overwrite each other's mark in _retry_attempt (667, 703, 744) and
\* repeat the request for ever, and so does a 401 or 403 that persists behind
\* logins that succeed, since each login clears the mark (619, 359, 419): both
\* are left out here.
Answered ==
    \A t \in Tasks :
        \/ stack[t] # <<>> ~> stack[t] = <<>>
        \/ \A kind \in {"limit", "gateway", "busy"} :
               []<><<AnswerUnlike(t, kind)>>_vars
=============================================================================
