------------------------------ MODULE Sessions ------------------------------
(***************************************************************************)
(* auth.Manager: organizations, their first admin, and sessions that slide *)
(* with use.  One call of the database is one step.                        *)
(***************************************************************************)
EXTENDS Requests

CONSTANTS
  Slug, Email,
  Token,       \* session tokens; newToken takes one never used before
  SessionTTL,
  MaxTime      \* bound: the clock

ASSUME SessionsAssumption == SessionTTL \in Nat \ {0} /\ MaxTime \in Nat

VARIABLES
  orgs,      \* table organizations, by slug
  admins,    \* table org_users: email -> slug
  sessions,  \* table: token -> [email, expires]
  clock,
  ended      \* history: the tokens used in a session that is over

sessionVars == <<orgs, admins, sessions, clock, ended>>

SessionsInit ==
  orgs = {} /\ admins = Nothing /\ sessions = Nothing /\ clock = 0 /\ ended = {}

Mint(t, e) ==
  /\ t \notin DOMAIN sessions \cup ended
  /\ sessions' = Put(sessions, t, [email |-> e, expires |-> clock + SessionTTL])

-----------------------------------------------------------------------------
(* Signup is one transaction: it waits for another that inserted the same  *)
(* slug or e-mail, and fails when that is committed.                       *)
BeginSignup(r, o, e) ==
  /\ Begin(r, [op |-> "signup", step |-> "org", slug |-> o, email |-> e])
  /\ UNCHANGED sessionVars

\* Mutant: each INSERT commits by itself.
InsertOrgCommits(r) ==
  /\ In(r, "signup", "org")
  /\ IF req[r].slug \in orgs THEN Reply(r) /\ UNCHANGED orgs
     ELSE To(r, "user") /\ orgs' = orgs \cup {req[r].slug}
  /\ UNCHANGED <<admins, sessions, clock, ended, ops>>

InsertOrg(r) ==
  /\ In(r, "signup", "org")
  /\ \A q \in Req \ {r} : req[q].op = "signup" /\ req[q].step # "org" => req[q].slug # req[r].slug
  /\ IF req[r].slug \in orgs THEN Reply(r) ELSE To(r, "user")
  /\ UNCHANGED <<sessionVars, ops>>

InsertUser(r) ==
  /\ In(r, "signup", "user")
  /\ \A q \in Req \ {r} : In(q, "signup", "commit") => req[q].email # req[r].email
  /\ IF req[r].email \in DOMAIN admins THEN Reply(r) ELSE To(r, "commit")
  /\ UNCHANGED <<sessionVars, ops>>

\* With the session; the answer can be lost.
CommitSignup(r) ==
  LET x == req[r] IN
  /\ In(r, "signup", "commit")
  /\ orgs' = orgs \cup {x.slug} /\ admins' = Put(admins, x.email, x.slug)
  /\ \E t \in Token : Mint(t, x.email)
  /\ Reply(r)
  /\ UNCHANGED <<clock, ended, ops>>

\* An error rolls the transaction back.
SignupFails(r) ==
  /\ req[r].op = "signup"
  /\ Reply(r)
  /\ UNCHANGED <<sessionVars, ops>>

\* Login: the password is that of the e-mail; then the session, which may
\* fail.
BeginLogin(r, e) ==
  /\ e \in DOMAIN admins
  /\ Begin(r, [op |-> "login", step |-> "mint", email |-> e])
  /\ UNCHANGED sessionVars

MintLogin(r) ==
  /\ In(r, "login", "mint")
  /\ (\E t \in Token : Mint(t, req[r].email)) \/ UNCHANGED sessions
  /\ Reply(r)
  /\ UNCHANGED <<orgs, admins, clock, ended, ops>>

End(t) == sessions' = Without(sessions, t) /\ ended' = ended \cup {t}

Logout(t) ==
  /\ t \in DOMAIN sessions /\ Budget
  /\ End(t)
  /\ UNCHANGED <<req, orgs, admins, clock>>

-----------------------------------------------------------------------------
\* Resolve: the row is read; without one the request is refused.
BeginResolve(r, t) ==
  /\ t \in DOMAIN sessions
  /\ Begin(r, [op |-> "resolve", token |-> t, email |-> sessions[t].email,
               step |-> IF clock > sessions[t].expires THEN "purge" ELSE "extend"])
  /\ UNCHANGED sessionVars

\* Mutant: the session is written back, whether or not it is still there.
ExtendUpserts(r) ==
  /\ In(r, "resolve", "extend")
  /\ sessions' = Put(sessions, req[r].token, [email |-> req[r].email, expires |-> clock + SessionTTL])
  /\ Reply(r)
  /\ UNCHANGED <<orgs, admins, clock, ended, ops>>

\* The request is served all the same when this fails.
Extend(r) ==
  LET t == req[r].token IN
  /\ In(r, "resolve", "extend")
  /\ \/ sessions' = [s \in DOMAIN sessions |->
            IF s = t THEN [sessions[s] EXCEPT !.expires = clock + SessionTTL] ELSE sessions[s]]
     \/ UNCHANGED sessions
  /\ Reply(r)
  /\ UNCHANGED <<orgs, admins, clock, ended, ops>>

\* The row was expired when it was read; another request may have extended
\* it since.
Purge(r) ==
  /\ In(r, "resolve", "purge")
  /\ (req[r].token \in DOMAIN sessions /\ End(req[r].token)) \/ UNCHANGED <<sessions, ended>>
  /\ Reply(r)
  /\ UNCHANGED <<orgs, admins, clock, ops>>

\* The clock, as far as there is something that expires.
Tick ==
  /\ sessions # Nothing
  /\ clock < MaxTime /\ clock' = clock + 1
  /\ UNCHANGED <<req, ops, orgs, admins, sessions, ended>>

SessionStep(r) ==
  \/ InsertOrg(r) \/ InsertUser(r) \/ CommitSignup(r) \/ SignupFails(r)
  \/ MintLogin(r) \/ Extend(r) \/ Purge(r)

=============================================================================
