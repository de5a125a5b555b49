------------------------------- MODULE VKAuth -------------------------------
(***************************************************************************)
(* How TURN credentials are got from VK: fetchVkCreds of go_client/        *)
(* creds.go with its two paths (VK Calls, creds_vkcalls.go, and the legacy *)
(* token chain), the captcha chain, and the exchange with the application  *)
(* that solves captchas in a WebView (captcha_ipc_ios.go).                 *)
(*                                                                         *)
(* One fetch runs at a time (vkRequestSem, module FloodGate).  A captcha   *)
(* request is a line on the intercepted stdout; one goroutine serves the   *)
(* lines in turn, through two files in the App Group container, and puts   *)
(* the answer into CaptchaResultChan, from which the solver takes it.      *)
(* Solver and server have timers of their own, so they may drift apart:    *)
(* `old` marks what belongs to a request the solver no longer waits for.   *)
(***************************************************************************)
EXTENDS Integers, Sequences

CONSTANTS
    Credentials,   \* entries of vkCredentialsList
    AttemptLimit,  \* vkCredentialAttemptLimit
    CaptchaLimit,  \* captchas solved for one token (3)
    MaxWaiting     \* bound: captcha lines in the pipe

ASSUME AuthAssumption ==
    /\ {Credentials, AttemptLimit, MaxWaiting} \subseteq Nat \ {0}
    /\ CaptchaLimit \in Nat

VARIABLES
    pc,        \* where the fetch is
    step,      \* the step of the VK Calls path
    attempt,   \* attempts with credentials that failed
    tries,     \* captchas of this token chain
    chain,     \* the captcha solvers left to try, the first one being used
    cancelled, \* the context of the fetch is done
    lockout,   \* now < globalCaptchaLockout
    outcome,   \* what the last fetch returned
    final,     \* history: what VK said in this fetch that must end it
    pipe,      \* captcha lines not read yet
    serving,   \* the request of consumeIOSStdout
    serverPc,  \* idle, polling, or sending (a result, blocked on a full channel)
    resultFile,\* the result file: none, or for the request served or another
    app,       \* the request the application works on
    channel,   \* CaptchaResultChan, of capacity 1
    quiet,     \* history: the exchange was at rest when the solver asked
    taken      \* history: whose result the solver took last

fetchVars == <<pc, step, attempt, tries, chain, cancelled, lockout, outcome, final>>
serverVars == <<serving, serverPc, resultFile, app>>
exchangeVars == <<pipe, serverVars, channel, quiet, taken>>
vars == <<fetchVars, exchangeVars>>

-----------------------------------------------------------------------------
\* calls: getVKCredsViaVKCallsPath; anon, preview, token, login, join: the five
\* requests of getTokenChain; solving: in solveCaptchaBySelectedMode; webview:
\* in requestWebViewCaptcha; breather: the delay between two WebViews; pause:
\* the delay after the last credentials of the list
Requesting == {"calls", "anon", "preview", "token", "login", "join"}
Locations == Requesting \cup {"idle", "solving", "webview", "breather", "pause"}
Owners == {"cur", "old"}

\* solveCaptchaBySelectedMode: the solvers of each mode, in order.
Solvers == [auto |-> <<"v2", "web", "web", "v2", "web">>,
            rjs  |-> <<"v2", "web">>,
            wv   |-> <<"web">>]

Init ==
    /\ pc = "idle" /\ step = 1 /\ attempt = 0 /\ tries = 0 /\ chain = <<>>
    /\ cancelled = FALSE /\ lockout = FALSE /\ outcome = "none" /\ final = "none"
    /\ pipe = <<>> /\ serving = "none" /\ serverPc = "idle"
    /\ resultFile = "none" /\ app = "none" /\ channel = <<>>
    /\ quiet = FALSE /\ taken = "none"

-----------------------------------------------------------------------------
\* How a fetch ends or goes on

Return(o) ==
    /\ outcome' = o
    /\ pc' = "idle" /\ step' = 1 /\ attempt' = 0 /\ tries' = 0 /\ chain' = <<>>

\* A variant: a captcha that was not solved counts like any other error.
FailedGoesOn(e) ==
    IF e = "call" \/ attempt + 1 >= AttemptLimit
       THEN Return(e)
       ELSE /\ pc' = "anon" /\ attempt' = attempt + 1 /\ tries' = 0 /\ chain' = <<>>
            /\ UNCHANGED <<step, outcome>>

\* The token chain failed with e: a dead call and an unsolved captcha end the
\* fetch, other errors lead to the next credentials.
Failed(e) ==
    IF e \in {"call", "wait"} \/ attempt + 1 >= AttemptLimit
       THEN Return(e)
       ELSE /\ pc' = IF attempt % Credentials = Credentials - 1 THEN "pause" ELSE "anon"
            /\ attempt' = attempt + 1
            /\ tries' = 0 /\ chain' = <<>>
            /\ UNCHANGED <<step, outcome>>

At(l) ==
    /\ pc' = l
    /\ UNCHANGED <<step, attempt, tries, chain, outcome>>

\* What VK answers: nothing but an error once the context is done.
Answers(good) == IF cancelled THEN {"other"} ELSE good \cup {"other"}

\* VK said something that must end the fetch.
Says(a) == final' = IF a \in {"call", "flood"} THEN a ELSE final

-----------------------------------------------------------------------------
\* fetchVkCreds in anonymous mode, refused during the lockout.
Begin ==
    /\ pc = "idle"
    /\ cancelled' = FALSE /\ final' = "none"
    /\ \/ lockout /\ Return("wait")
       \/ ~lockout /\ \E l \in {"calls", "anon"} : At(l)
    /\ UNCHANGED <<lockout, exchangeVars>>

\* Every caller has left, or the 30 s of fetchVkCredsSerialized are over, the
\* captcha chain included.
Cancel ==
    /\ pc # "idle" /\ ~cancelled
    /\ cancelled' = TRUE
    /\ UNCHANGED <<pc, step, attempt, tries, chain, lockout, outcome, final, exchangeVars>>

\* What the answer to a request of the VK Calls path may say.  Flood control is
\* told by its text, so at every step; a dead call or a captcha by its code
\* (vkCallsAPIError), at the two steps that look at it.  A missing field is an
\* error like any other.
CallsAnswers == Answers({"ok", "flood"} \cup IF step \in {2, 3} THEN {"call", "captcha"} ELSE {})

\* A variant: the error of the path is not unwrapped.
CallsStepWrapped ==
    /\ pc = "calls"
    /\ \E a \in CallsAnswers :
          /\ Says(a)
          /\ IF a = "ok" /\ step < 5
                THEN step' = step + 1 /\ UNCHANGED <<pc, attempt, tries, chain, outcome>>
             ELSE IF a \in {"ok", "flood"}
                THEN Return(a)
                ELSE pc' = "anon" /\ step' = 1 /\ UNCHANGED <<attempt, tries, chain, outcome>>
    /\ UNCHANGED <<cancelled, lockout, exchangeVars>>

\* The five requests of the VK Calls path.  A dead call and flood control end
\* the fetch; any other failure falls back to the legacy path.
CallsStep ==
    /\ pc = "calls"
    /\ \E a \in CallsAnswers :
          /\ Says(a)
          /\ IF a = "ok" /\ step < 5
                THEN step' = step + 1 /\ UNCHANGED <<pc, attempt, tries, chain, outcome>>
             ELSE IF a \in {"ok", "call", "flood"}
                THEN Return(a)
                ELSE pc' = "anon" /\ step' = 1 /\ UNCHANGED <<attempt, tries, chain, outcome>>
    /\ UNCHANGED <<cancelled, lockout, exchangeVars>>

\* The requests of the token chain that either succeed or fail it.
ChainStep(l, next) ==
    /\ pc = l
    /\ \E a \in Answers({"ok"}) : IF a = "ok" THEN next ELSE Failed(a)
    /\ UNCHANGED <<cancelled, lockout, final, exchangeVars>>

AnonToken == ChainStep("anon", At("preview"))
AnonymLogin == ChainStep("login", At("join"))
JoinConversation == ChainStep("join", Return("ok"))

\* getCallPreview: only a dead call matters.
CallPreview ==
    /\ pc = "preview"
    /\ \E a \in Answers({"ok", "call"}) :
          /\ Says(a)
          /\ IF a = "call" THEN Failed(a) ELSE At("token")
    /\ UNCHANGED <<cancelled, lockout, exchangeVars>>

TooManyCaptchas == tries >= CaptchaLimit

\* getAnonymousToken.  With a captcha too many, all fetches are locked out.
AnonymousToken ==
    /\ pc = "token"
    /\ \E a \in Answers({"ok", "call", "captcha"}) :
          /\ Says(a)
          /\ lockout' = (lockout \/ (a = "captcha" /\ TooManyCaptchas))
          /\ CASE a = "ok" -> At("login")
               [] a \in {"call", "other"} -> Failed(a)
               [] a = "captcha" /\ TooManyCaptchas -> Failed("wait")
               [] OTHER -> /\ pc' = "solving"
                           /\ \E m \in DOMAIN Solvers : chain' = Solvers[m]
                           /\ UNCHANGED <<step, attempt, tries, outcome>>
    /\ UNCHANGED <<cancelled, exchangeVars>>

PauseOver ==
    /\ pc = "pause"
    /\ At("anon")
    /\ UNCHANGED <<cancelled, lockout, final, exchangeVars>>

PauseCancelled ==
    /\ pc = "pause" /\ cancelled
    /\ Return("cancelled")
    /\ UNCHANGED <<cancelled, lockout, final, exchangeVars>>

-----------------------------------------------------------------------------
\* The captcha chain

\* A variant: the captchas are not counted.
AskTokenUncounted ==
    /\ pc' = "token" /\ chain' = <<>>
    /\ UNCHANGED <<step, attempt, tries, lockout, outcome>>

\* The token is asked for again, with the success token or anew.
AskTokenAgain ==
    /\ pc' = "token" /\ tries' = tries + 1 /\ chain' = <<>>
    /\ UNCHANGED <<step, attempt, lockout, outcome>>

\* No solver succeeded, or the context is done: the lockout, in both cases.
GiveUp == lockout' = TRUE /\ Failed("wait")

NextSolver(l) ==
    /\ pc' = l /\ chain' = Tail(chain)
    /\ UNCHANGED <<step, attempt, tries, lockout, outcome>>

\* One attempt of the automatic solver: page, settings, proof of work, checkbox or
\* slider.  Its requests and its proof of work end with the context.
solveOnce == IF cancelled THEN {"context"} ELSE {"token", "limit", "dead", "rejected"}

\* solveVkCaptchaV2Attempts makes one error of everything but a rate limit and
\* the end of the context: the attempts are exhausted.  So its result never
\* says that the captcha session is dead, and isCaptchaSessionDead fails.
solveVkCaptchaV2Attempts(a) == IF a = "dead" \/ a = "rejected" THEN "exhausted" ELSE a
isCaptchaSessionDead(e) == e = "dead"

SolveV2 ==
    /\ pc = "solving" /\ Head(chain) = "v2"
    /\ \E a \in solveOnce :
          LET e == solveVkCaptchaV2Attempts(a) IN
          IF e = "token" THEN AskTokenAgain
          ELSE IF e = "context" THEN GiveUp
          ELSE IF isCaptchaSessionDead(e) THEN AskTokenAgain
          ELSE NextSolver("solving")
    /\ UNCHANGED <<cancelled, final, exchangeVars>>

\* A variant: the channel is not drained.
AskWebViewUndrained ==
    /\ pc = "solving" /\ Head(chain) = "web"
    /\ Len(pipe) < MaxWaiting
    /\ At("webview")
    /\ channel' = [i \in DOMAIN channel |-> [channel[i] EXCEPT !.owner = "old"]]
    /\ pipe' = Append([i \in DOMAIN pipe |-> "old"], "cur")
    /\ serving' = IF serving = "none" THEN serving ELSE "old"
    /\ quiet' = (serving = "none" /\ pipe = <<>>)
    /\ taken' = "none"
    /\ UNCHANGED <<cancelled, lockout, final, serverPc, resultFile, app>>

\* requestWebViewCaptcha: the channel is drained, the line written.  All other
\* requests are old now.
AskWebView ==
    /\ pc = "solving" /\ Head(chain) = "web"
    /\ Len(pipe) < MaxWaiting
    /\ At("webview")
    /\ channel' = <<>>
    /\ pipe' = Append([i \in DOMAIN pipe |-> "old"], "cur")
    /\ serving' = IF serving = "none" THEN serving ELSE "old"
    /\ quiet' = (serving = "none" /\ pipe = <<>>)
    /\ taken' = "none"
    /\ UNCHANGED <<cancelled, lockout, final, serverPc, resultFile, app>>

\* A WebView that failed: the next one after a breather, unless it was the last
\* of the chain or the context is done.
WebViewFailed == IF Len(chain) = 1 \/ cancelled THEN GiveUp ELSE NextSolver("breather")

TakeResult ==
    /\ pc = "webview" /\ channel # <<>>
    /\ IF channel[1].value = "token" THEN AskTokenAgain ELSE WebViewFailed
    /\ channel' = <<>>
    /\ taken' = channel[1].owner
    /\ UNCHANGED <<cancelled, final, pipe, serverVars, quiet>>

\* 10, 60 or 120 s, whatever the context.
WebViewTimesOut ==
    /\ pc = "webview"
    /\ WebViewFailed
    /\ UNCHANGED <<cancelled, final, exchangeVars>>

BreatherOver ==
    /\ pc = "breather"
    /\ \/ At("solving") /\ UNCHANGED lockout
       \/ cancelled /\ GiveUp
    /\ UNCHANGED <<cancelled, final, exchangeVars>>

\* 60 s have passed.
LockoutOver ==
    /\ lockout
    /\ lockout' = FALSE
    /\ UNCHANGED <<pc, step, attempt, tries, chain, cancelled, outcome, final, exchangeVars>>

-----------------------------------------------------------------------------
\* consumeIOSStdout and the application

\* handleIOSCaptchaSolveLine: the old result file is removed, the request file
\* written with a new ID.
Serve ==
    /\ serverPc = "idle" /\ pipe # <<>>
    /\ serving' = Head(pipe) /\ pipe' = Tail(pipe)
    /\ serverPc' = "polling"
    /\ resultFile' = "none"
    /\ UNCHANGED <<fetchVars, app, channel, quiet, taken>>

\* The request file is removed; what the application does is for another
\* request than the one that will be served next.
ServerDone ==
    /\ serverPc' = "idle" /\ serving' = "none"
    /\ resultFile' = IF resultFile = "none" THEN resultFile ELSE "other"
    /\ app' = IF app = "none" THEN app ELSE "other"

\* No storage, or the request file cannot be written: the error is dropped if
\* the channel is full; so is that of the timeout, 250 ms before the solver's.
ServeFails ==
    /\ serverPc = "polling"
    /\ channel' = IF channel = <<>> THEN <<[owner |-> serving, value |-> "error"]>> ELSE channel
    /\ ServerDone
    /\ UNCHANGED <<fetchVars, pipe, quiet, taken>>

\* A result with the ID of the request is taken from its file.
Poll ==
    /\ serverPc = "polling" /\ resultFile = "served"
    /\ serverPc' = "sending"
    /\ resultFile' = "none"
    /\ UNCHANGED <<fetchVars, pipe, serving, app, channel, quiet, taken>>

\* It is sent when the channel has room: a token, or the application's error.
Send ==
    /\ serverPc = "sending" /\ channel = <<>>
    /\ \E v \in {"token", "error"} : channel' = <<[owner |-> serving, value |-> v]>>
    /\ ServerDone
    /\ UNCHANGED <<fetchVars, pipe, quiet, taken>>

\* The application finds the request file, in place of an older one,
AppSees ==
    /\ app # "served" /\ serverPc = "polling"
    /\ app' = "served"
    /\ UNCHANGED <<fetchVars, pipe, serving, serverPc, resultFile, channel, quiet, taken>>

\* finds it gone,
AppForgets ==
    /\ app # "none" /\ serving = "none"
    /\ app' = "none"
    /\ UNCHANGED <<fetchVars, pipe, serving, serverPc, resultFile, channel, quiet, taken>>

\* or writes its result, perhaps too late.
AppAnswers ==
    /\ app # "none"
    /\ resultFile' = app
    /\ app' = "none"
    /\ UNCHANGED <<fetchVars, pipe, serving, serverPc, channel, quiet, taken>>

-----------------------------------------------------------------------------
FetchStep ==
    \/ CallsStep \/ AnonToken \/ CallPreview \/ AnonymousToken \/ AnonymLogin \/ JoinConversation
    \/ PauseOver \/ PauseCancelled
    \/ SolveV2 \/ AskWebView \/ TakeResult \/ WebViewTimesOut \/ BreatherOver

ServerStep == Serve \/ ServeFails \/ Poll \/ Send

Next ==
    \/ Begin \/ Cancel \/ FetchStep \/ LockoutOver
    \/ ServerStep \/ AppSees \/ AppForgets \/ AppAnswers

Spec == Init /\ [][Next]_vars

\* Requests and delays end (timeouts of 20 s for HTTP, those of the WebView),
\* the server goes on.  Nothing is assumed of the application and the user.
FairSpec == Spec /\ WF_vars(FetchStep) /\ WF_vars(ServerStep)

-----------------------------------------------------------------------------
\* The end of a mode's list of solvers; those of all modes are ends of one.
IsChain(c) == \E n \in 1..6 : c = SubSeq(Solvers.auto, n, 5)

\* The types and the limits: attempts with credentials and captchas per token.
TypeOK ==
    /\ pc \in Locations /\ step \in 1..5
    /\ attempt \in 0..(AttemptLimit - 1) /\ tries \in 0..CaptchaLimit
    /\ IsChain(chain)
    /\ pc \in {"solving", "webview", "breather"} => chain # <<>>
    /\ cancelled \in BOOLEAN /\ lockout \in BOOLEAN /\ quiet \in BOOLEAN
    /\ outcome \in {"none", "ok", "call", "flood", "wait", "other", "cancelled"}
    /\ final \in {"none", "call", "flood"}
    /\ pipe \in Seq(Owners) /\ Len(pipe) <= MaxWaiting
    /\ serving \in Owners \cup {"none"} /\ taken \in Owners \cup {"none"}
    /\ serverPc \in {"idle", "polling", "sending"}
    /\ {resultFile, app} \subseteq {"none", "served", "other"}
    /\ channel \in Seq([owner : Owners, value : {"token", "error"}]) /\ Len(channel) <= 1

\* A captcha that was not solved ends the fetch that met it and every fetch of
\* the next minute, before another request is made to VK (creds.go:578, 626).
SilentInLockout == lockout => pc = "idle"

\* A dead call, and flood control on the VK Calls path, end the fetch with that
\* answer: no credentials are tried after it, no legacy path (creds.go:588).
FinalIsFinal == final # "none" => pc = "idle" /\ outcome = final

\* A solver that found the exchange at rest takes the answer to its own
\* request, although answers to earlier ones may have come late: to the channel
\* (drained) or to the result file (other ID).
OwnAnswer == quiet => taken # "old"

\* A fetch returns, whatever VK, the application and the server do.
FetchReturns == pc # "idle" ~> pc = "idle"
=============================================================================
