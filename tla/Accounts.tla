------------------------------ MODULE Accounts ------------------------------
(***************************************************************************)
(* The tokens and the password of one account: sessions of rotating        *)
(* refresh tokens, reset tokens sent by mail, changes of the password.     *)
(* A token is a key of Redis, taken with GETDEL; between taking it and     *)
(* what it is good for a request hashes, asks the database or Redis again, *)
(* and may fail. Any token ever issued may be presented again.             *)
(***************************************************************************)
EXTENDS Integers

CONSTANTS
    Sessions,    \* started by Register or Login
    Resets,      \* requests for a reset mail
    Handlers,    \* requests handled at the same time
    Passwords, InitialPassword,
    MaxRotations \* bound on the refreshes of a session

ASSUME AccountsAssumption == InitialPassword \in Passwords /\ MaxRotations \in Nat

VARIABLES
    keys,      \* live keys of Redis
    issued,    \* of each session: its refresh tokens are numbered from 1
    mailed,    \* the resets whose token was stored
    handling,  \* what each handler is between two calls of
    loggedOut, \* sessions that were told they are logged out
    password,
    used       \* ghost: the reset tokens that have set a password, with how often

accountVars == <<keys, issued, mailed, handling, loggedOut, password, used>>

Refresh(s, n) == [kind |-> "refresh", of |-> s, n |-> n]
Reset(k)      == [kind |-> "reset", of |-> k, n |-> 0]
Waiting       == [step |-> "idle"]

AccountsInit ==
    /\ keys = {}
    /\ issued = [s \in Sessions |-> 0]
    /\ mailed = {}
    /\ handling = [h \in Handlers |-> Waiting]
    /\ loggedOut = {}
    /\ password = InitialPassword
    /\ used = [k \in Resets |-> 0]

---------------------------------------------------------------------------

\* Mutant: GET instead of GETDEL.
TakeKeeping(key) == key \in keys /\ UNCHANGED keys

\* refreshTokenStore.Consume and Delete, and the GETDEL of ResetPassword.
Take(key) == key \in keys /\ keys' = keys \ {key}

Start(h, step) == handling[h] = Waiting /\ handling' = [handling EXCEPT ![h] = step]
Done(h) == handling' = [handling EXCEPT ![h] = Waiting]

\* issueTokens after the password was verified, or the account created.
Login(s) ==
    /\ issued[s] = 0
    /\ issued' = [issued EXCEPT ![s] = 1]
    /\ keys' = keys \cup {Refresh(s, 1)}
    /\ UNCHANGED <<mailed, handling, loggedOut, password, used>>

RefreshTakes(h, s, n) ==
    /\ n \in 1..issued[s] /\ issued[s] < MaxRotations
    /\ Take(Refresh(s, n))
    /\ Start(h, [step |-> "issue", of |-> s])
    /\ UNCHANGED <<issued, mailed, loggedOut, password, used>>

RefreshIssues(h) ==
    /\ handling[h].step = "issue"
    /\ LET s == handling[h].of IN
       /\ issued' = [issued EXCEPT ![s] = @ + 1]
       /\ keys' = keys \cup {Refresh(s, issued[s] + 1)}
    /\ Done(h)
    /\ UNCHANGED <<mailed, loggedOut, password, used>>

\* The refresh token sent along must be live: the session ends.
Logout(s, n) ==
    /\ n \in 1..issued[s]
    /\ Take(Refresh(s, n))
    /\ loggedOut' = loggedOut \cup {s}
    /\ UNCHANGED <<issued, mailed, handling, password, used>>

\* The key is stored, then the mail is sent; it may not arrive.
ForgotPassword(k) ==
    /\ k \notin mailed
    /\ mailed' = mailed \cup {k}
    /\ keys' = keys \cup {Reset(k)}
    /\ UNCHANGED <<issued, handling, loggedOut, password, used>>

ResetTakes(h, k, next) ==
    /\ k \in mailed
    /\ Take(Reset(k))
    /\ Start(h, [step |-> "reset", of |-> k, next |-> next])
    /\ UNCHANGED <<issued, mailed, loggedOut, password, used>>

ResetWrites(h) ==
    /\ handling[h].step = "reset"
    /\ password' = handling[h].next
    /\ used' = [used EXCEPT ![handling[h].of] = @ + 1]
    /\ Done(h)
    /\ UNCHANGED <<keys, issued, mailed, loggedOut>>

\* The current password is verified in one statement, replaced in another.
ChangeVerifies(h, current, next) ==
    /\ current = password /\ next # current
    /\ Start(h, [step |-> "change", next |-> next])
    /\ UNCHANGED <<keys, issued, mailed, loggedOut, password, used>>

ChangeWrites(h) ==
    /\ handling[h].step = "change"
    /\ password' = handling[h].next
    /\ Done(h)
    /\ UNCHANGED <<keys, issued, mailed, loggedOut, used>>

\* Redis, the database or the process fails between the two calls.
HandlerFails(h) ==
    /\ handling[h] # Waiting /\ Done(h)
    /\ UNCHANGED <<keys, issued, mailed, loggedOut, password, used>>

\* Thirty days, or thirty minutes.
Expire(key) ==
    /\ keys' = keys \ {key}
    /\ UNCHANGED <<issued, mailed, handling, loggedOut, password, used>>

AccountsNext ==
    \/ \E s \in Sessions : Login(s) \/ \E n \in 1..MaxRotations : Logout(s, n)
    \/ \E k \in Resets : ForgotPassword(k)
    \/ \E key \in keys : Expire(key)
    \/ \E h \in Handlers :
        \/ \E s \in Sessions, n \in 1..MaxRotations : RefreshTakes(h, s, n)
        \/ \E k \in Resets, next \in Passwords : ResetTakes(h, k, next)
        \/ \E current, next \in Passwords : ChangeVerifies(h, current, next)
        \/ RefreshIssues(h) \/ ResetWrites(h) \/ ChangeWrites(h) \/ HandlerFails(h)

AccountsSpec == AccountsInit /\ [][AccountsNext]_accountVars

---------------------------------------------------------------------------

\* The token a session can go on with: a live one, or one about to be issued.
Holders(s) ==
    {key \in keys : key.kind = "refresh" /\ key.of = s}
        \cup {h \in Handlers : handling[h].step = "issue" /\ handling[h].of = s}

\* Whatever is presented twice, late or at the same time: a session never goes
\* on in two places, none after it was told it is logged out, and a reset
\* token sets at most one password.
TokensWorkOnce ==
    /\ \A s \in Sessions : \A x, y \in Holders(s) : x = y
    /\ \A s \in loggedOut : Holders(s) = {}
    /\ \A k \in Resets : used[k] <= 1

=============================================================================
