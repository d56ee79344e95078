------------------------------- MODULE Clients -------------------------------
(***************************************************************************)
(* The clients of QPay and e-barimt in one process of the core: the token  *)
(* each keeps, and the requests that share it.                             *)
(*                                                                         *)
(* A request to QPay logs in when there is no token or it is a day old.    *)
(* Only when QPay refuses the token (401) does it log in and ask again,    *)
(* once.  Requests that log in at the same time each get a token, and the  *)
(* last answer is kept.  The e-barimt client has one login under way at    *)
(* most, everybody else waits for it, and it never asks twice.             *)
(*                                                                         *)
(* QPay and e-barimt are external: they accept a token until they like no  *)
(* longer, carry a request out before their answer is lost, or never see   *)
(* it.                                                                     *)
(***************************************************************************)
EXTENDS Naturals

CONSTANTS
  QCalls,       \* requests to QPay under way at a time
  BCalls,       \* requests to e-barimt under way at a time
  Tokens        \* tokens QPay issues

VARIABLES
  accessToken,  \* QPay's token, or "none"
  expired,      \* a day has passed since it came
  accepted,     \* tokens QPay accepts
  at,           \* where each request is
  bearer,       \* the token it was sent with
  ran,          \* how often it was carried out
  loggedIn,     \* the e-barimt token is there and not near its end
  refreshing    \* the e-barimt login others wait for

clientVars == <<accessToken, expired, accepted, at, bearer, ran, loggedIn, refreshing>>

Calls == QCalls \cup BCalls

ClientsInit ==
  /\ accessToken = "none" /\ expired = FALSE /\ accepted = {}
  /\ at = [c \in Calls |-> "idle"]
  /\ bearer = [c \in QCalls |-> "none"]
  /\ ran = [c \in Calls |-> 0]
  /\ loggedIn = FALSE /\ refreshing = FALSE

Move(c, from, to) == at[c] = from /\ at' = [at EXCEPT ![c] = to]
RanOnceMore(c) == ran' = [ran EXCEPT ![c] = @ + 1]

qpay == <<accessToken, expired, accepted>>
ebarimt == <<loggedIn, refreshing>>

-----------------------------------------------------------------------------
(* QPay: createInvoice, getInvoice and checkPayment *)

Valid == accessToken # "none" /\ ~expired

EnsureValidToken(c) ==
  /\ at[c] = "idle"
  /\ at' = [at EXCEPT ![c] = IF Valid THEN "send" ELSE "login"]
  /\ UNCHANGED <<qpay, bearer, ran, ebarimt>>

\* A new token; QPay may drop the ones before.
Authenticate(c, t) ==
  /\ Move(c, "login", "send") \/ Move(c, "relogin", "resend")
  /\ t \notin accepted /\ t # accessToken /\ \A d \in QCalls : bearer[d] # t
  /\ accessToken' = t /\ expired' = FALSE
  /\ accepted' \in {{t}, accepted \cup {t}}
  /\ UNCHANGED <<bearer, ran, ebarimt>>

AuthenticateFails(c) ==
  /\ Move(c, "login", "failed") \/ Move(c, "relogin", "failed")
  /\ UNCHANGED <<qpay, bearer, ran, ebarimt>>

\* The header is made of the token that is there when the request is made.
Send(c) ==
  /\ Move(c, "send", "sent") \/ Move(c, "resend", "resent")
  /\ bearer' = [bearer EXCEPT ![c] = accessToken]
  /\ UNCHANGED <<qpay, ran, ebarimt>>

CarryOut(c) ==
  /\ Move(c, "sent", "carried") \/ Move(c, "resent", "recarried")
  /\ bearer[c] \in accepted
  /\ RanOnceMore(c)
  /\ UNCHANGED <<qpay, bearer, ebarimt>>

Answer(c) ==
  /\ Move(c, "carried", "done") \/ Move(c, "recarried", "done")
  /\ UNCHANGED <<qpay, bearer, ran, ebarimt>>

\* Only a first request comes back to log in again.
Refuse(c) ==
  /\ Move(c, "sent", "relogin") \/ Move(c, "resent", "failed")
  /\ bearer[c] \notin accepted
  /\ UNCHANGED <<qpay, bearer, ran, ebarimt>>

\* A slip: whatever the error is, the request is sent again.
LoseRetried(c) ==
  /\ \/ Move(c, "sent", "relogin") \/ Move(c, "carried", "relogin")
     \/ Move(c, "resent", "failed") \/ Move(c, "recarried", "failed")
  /\ UNCHANGED <<qpay, bearer, ran, ebarimt>>

\* The request or its answer is lost, or QPay answers with another error.
Lose(c) ==
  /\ \E s \in {"sent", "carried", "resent", "recarried"} : Move(c, s, "failed")
  /\ UNCHANGED <<qpay, bearer, ran, ebarimt>>

DayPasses ==
  /\ Valid
  /\ expired' = TRUE
  /\ UNCHANGED <<accessToken, accepted, at, bearer, ran, ebarimt>>

Revoke(t) ==
  /\ t \in accepted
  /\ accepted' = accepted \ {t}
  /\ UNCHANGED <<accessToken, expired, at, bearer, ran, ebarimt>>

-----------------------------------------------------------------------------
(* e-barimt: restReceipt, getBarimt, sendData and deleteReceipt *)

\* A valid token is used, a login under way waited for, or one started.
LoginEbarimt(c) ==
  /\ at[c] = "idle"
  /\ IF loggedIn THEN /\ at' = [at EXCEPT ![c] = "post"]
                      /\ UNCHANGED refreshing
                 ELSE /\ at' = [at EXCEPT ![c] = "waits"]
                      /\ refreshing' = TRUE
  /\ UNCHANGED <<qpay, bearer, ran, loggedIn>>

\* The promise is settled for everybody who waits for it, and forgotten.
GetNewToken(ok) ==
  /\ refreshing
  /\ loggedIn' = ok /\ refreshing' = FALSE
  /\ at' = [c \in Calls |-> IF at[c] # "waits" THEN at[c]
                            ELSE IF ok THEN "post" ELSE "failed"]
  /\ UNCHANGED <<qpay, bearer, ran>>

Post(c) ==
  /\ Move(c, "post", "carried")
  /\ RanOnceMore(c)
  /\ UNCHANGED <<qpay, bearer, ebarimt>>

Receive(c) ==
  /\ Move(c, "carried", "done")
  /\ UNCHANGED <<qpay, bearer, ran, ebarimt>>

\* Errors are logged and swallowed; nothing is asked again.
PostFails(c) ==
  /\ Move(c, "post", "failed") \/ Move(c, "carried", "failed")
  /\ UNCHANGED <<qpay, bearer, ran, ebarimt>>

TokenEnds ==
  /\ loggedIn
  /\ loggedIn' = FALSE
  /\ UNCHANGED <<qpay, at, bearer, ran, refreshing>>

-----------------------------------------------------------------------------
\* The handler is through; another one begins.
Again(c) ==
  /\ Move(c, "done", "idle") \/ Move(c, "failed", "idle")
  /\ ran' = [ran EXCEPT ![c] = 0]
  /\ bearer' = [d \in QCalls |-> IF d = c THEN "none" ELSE bearer[d]]
  /\ UNCHANGED <<qpay, ebarimt>>

QPayNext ==
  \/ \E c \in QCalls :
       \/ EnsureValidToken(c) \/ AuthenticateFails(c) \/ Send(c) \/ CarryOut(c)
       \/ Answer(c) \/ Refuse(c) \/ Lose(c) \/ Again(c)
       \/ \E t \in Tokens : Authenticate(c, t)
  \/ \E t \in Tokens : Revoke(t)
  \/ DayPasses

EbarimtNext ==
  \/ \E c \in BCalls :
       LoginEbarimt(c) \/ Post(c) \/ Receive(c) \/ PostFails(c) \/ Again(c)
  \/ \E ok \in BOOLEAN : GetNewToken(ok)
  \/ TokenEnds

ClientsNext == QPayNext \/ EbarimtNext

ClientsSpec == ClientsInit /\ [][ClientsNext]_clientVars

-----------------------------------------------------------------------------
\* An invoice, a receipt or a question is carried out at most once for each
\* request of the core, although requests are repeated after a refused token
\* and their answers get lost; and who gets an answer gets it of a request
\* that was carried out.
CarriedOutOnce ==
  \A c \in Calls : ran[c] <= 1 /\ (at[c] = "done" => ran[c] = 1)
=============================================================================
