--------------------------- MODULE Authorization ---------------------------
(***************************************************************************)
(* Sessions and what they permit: application/authorization_service.cpp,   *)
(* interfaces/sdk_entitlement_policy.cpp and the callers of both in        *)
(* application/command_application_service.cpp.                            *)
(*                                                                         *)
(* Every operation that asks the auth provider reads the session under     *)
(* sessions_mu_, calls the provider without it, and takes it again to      *)
(* store the answer: three steps, between which the other threads run.     *)
(* The io thread serves the clients, an HTTP thread activates offline      *)
(* licences for the admin page, and a provider thread pays for a hard      *)
(* grab.  The provider is external: it has the licence of this machine     *)
(* and the units of the trial.                                             *)
(***************************************************************************)
EXTENDS Integers, FiniteSets

CONSTANTS
  Conns,         \* connection ids; an id is not used again
  Tokens,        \* the session tokens the provider may issue
  Methods,       \* the methods a client calls
  TrialContext,  \* the auth context before the licence is unlocked ...
  FullContext,   \* ... and after it
  MaxUnits,      \* units of the trial
  None

AccountTypes == {"unknown", "trial", "vip", "svip", "svip_plus", "custom"}

EntitlementRank ==
  [unknown |-> -1, trial |-> 0, vip |-> 1, svip |-> 2, svip_plus |-> 3, custom |-> 4]

Context == [account : AccountTypes, licensed : AccountTypes, trial : BOOLEAN,
            commercial : BOOLEAN, capabilities : SUBSET Methods]
Session == [token : Tokens, ctx : Context]

ASSUME AuthorizationAssumption ==
  /\ TrialContext \in Context /\ FullContext \in Context
  /\ MaxUnits \in Nat
  /\ None \notin Session /\ None \notin Context

(* sdk_entitlement_policy.cpp.  "trial" as a requirement means none.       *)

IsEntitlementAtLeast(current, required) ==
  EntitlementRank[current] >= EntitlementRank[required]

IsTrialEntitlementState(ctx) == ctx.account = "trial" \/ ctx.trial

RequiredTiers == {"trial", "vip", "svip", "svip_plus"}

NeedsNothing(ctx, required) ==
  \/ required = "trial"
  \/ IsEntitlementAtLeast(ctx.account, required)

\* Mutant: the highest tier needs no commercial authorization.
RequiresTrialQuotaAlways(ctx, required) ==
  /\ ~NeedsNothing(ctx, required)
  /\ IsTrialEntitlementState(ctx)
  /\ IsEntitlementAtLeast(ctx.licensed, required)

RequiresTrialQuota(ctx, required) ==
  /\ ~NeedsNothing(ctx, required)
  /\ IsTrialEntitlementState(ctx)
  /\ IsEntitlementAtLeast(ctx.licensed, required)
  /\ required = "svip_plus" => ctx.commercial

VARIABLES
  open,      \* connections that are there
  sessions,  \* sessions_
  call,      \* what each thread is doing
  licence,   \* the provider's: the context it answers with
  units,     \* the provider's: what is left of the trial
  granted,   \* history: the last feature a request was let through to
  raced      \* history: connections closed while an activation was under way

vars == <<open, sessions, call, licence, units, granted, raced>>

Threads == {"io", "http", "grab"}
Idle == [op |-> "idle", at |-> "idle", conn |-> None, need |-> "trial",
         seen |-> None, reply |-> None, paid |-> FALSE]
AskFor(op, c) == [Idle EXCEPT !.op = op, !.at = "ask", !.conn = c]
Grant(need, ctx, paid) == [need |-> need, ctx |-> ctx, paid |-> paid]

Calls == [op : {"idle", "create", "refresh", "activate", "quota", "feature"},
          at : {"idle", "check", "bind", "ask", "store"},
          conn : Conns \cup {None}, need : RequiredTiers,
          seen : Context \cup {None}, reply : Session \cup {None}, paid : BOOLEAN]

TypeOK ==
  /\ open \subseteq Conns
  /\ sessions \in [Conns -> Session \cup {None}]
  /\ call \in [Threads -> Calls]
  /\ licence \in Context
  /\ units \in 0..MaxUnits
  /\ granted \in [need : RequiredTiers, ctx : Context, paid : BOOLEAN] \cup {None}
  /\ raced \subseteq Conns

Init ==
  /\ open = Conns
  /\ sessions = [c \in Conns |-> None]
  /\ call = [th \in Threads |-> Idle]
  /\ licence = TrialContext
  /\ units = MaxUnits
  /\ granted = None
  /\ raced = {}

Returns(th) == call' = [call EXCEPT ![th] = Idle]

(* The first step of an operation: RequireSession, unless it creates one.  *)

CreateSession(c) ==
  /\ call["io"] = Idle /\ c \in open
  /\ call' = [call EXCEPT !["io"] = AskFor("create", c)]
  /\ UNCHANGED <<open, sessions, licence, units, granted, raced>>

\* Both branches of RefreshSession end in a provider call with the same outcome.
RefreshSession(c) ==
  /\ call["io"] = Idle /\ c \in open
  /\ sessions[c] # None
  /\ call' = [call EXCEPT !["io"] = AskFor("refresh", c)]
  /\ UNCHANGED <<open, sessions, licence, units, granted, raced>>

\* auth.activate_offline on the io thread; the admin page on an HTTP thread, which
\* names any connection.
ActivateOffline(th, c) ==
  /\ th \in {"io", "http"} /\ call[th] = Idle
  /\ th = "io" => c \in open
  /\ sessions[c] # None
  /\ call' = [call EXCEPT ![th] = AskFor("activate", c)]
  /\ UNCHANGED <<open, sessions, licence, units, granted, raced>>

\* capture.take on the io thread, a hard grab on a provider thread.
ConsumeQuota(th, c) ==
  /\ th \in {"io", "grab"} /\ call[th] = Idle
  /\ th = "io" => c \in open
  /\ sessions[c] # None
  /\ call' = [call EXCEPT ![th] = AskFor("quota", c)]
  /\ UNCHANGED <<open, sessions, licence, units, granted, raced>>

(* A request for a feature that needs a tier.                              *)

HasCapability(c, m) == sessions[c] # None /\ m \in sessions[c].ctx.capabilities

\* image.process_page and image.apply_color_mode are also allowed by image.process.
RequireCapability(c, m) ==
  \/ HasCapability(c, m)
  \/ m \in {"image.process_page", "image.apply_color_mode"} /\ HasCapability(c, "image.process")

UseFeature(c, m, need) ==
  /\ call["io"] = Idle /\ c \in open
  /\ RequireCapability(c, m)
  /\ call' = [call EXCEPT !["io"] =
                [Idle EXCEPT !.op = "feature", !.at = "check", !.conn = c, !.need = need]]
  /\ UNCHANGED <<open, sessions, licence, units, granted, raced>>

\* RequireFeatureEntitlement reads the session again; the HTTP thread may have written it.
RequireFeatureEntitlement ==
  LET k == call["io"]
      s == sessions[k.conn]
  IN /\ k.op = "feature" /\ k.at = "check"
     /\ \/ /\ s # None /\ NeedsNothing(s.ctx, k.need)
           /\ granted' = Grant(k.need, s.ctx, FALSE)
           /\ Returns("io")
        \/ /\ s # None /\ RequiresTrialQuota(s.ctx, k.need)
           /\ call' = [call EXCEPT !["io"] = [k EXCEPT !.at = "bind", !.seen = s.ctx]]
           /\ UNCHANGED granted
        \/ /\ s = None \/ ~(NeedsNothing(s.ctx, k.need) \/ RequiresTrialQuota(s.ctx, k.need))
           /\ Returns("io")
           /\ UNCHANGED granted
     /\ UNCHANGED <<open, sessions, licence, units, raced>>

\* ConsumeQuota for the feature: a third look at the session.
BindFeature ==
  LET k == call["io"]
  IN /\ k.op = "feature" /\ k.at = "bind"
     /\ IF sessions[k.conn] # None
        THEN call' = [call EXCEPT !["io"] = [k EXCEPT !.at = "ask"]]
        ELSE Returns("io")
     /\ UNCHANGED <<open, sessions, licence, units, granted, raced>>

(* The second step: the provider answers or refuses.                       *)

Answer(th, ctx, paid) ==
  \E token \in Tokens :
    call' = [call EXCEPT ![th] = [@ EXCEPT !.at = "store", !.paid = paid,
                                           !.reply = [token |-> token, ctx |-> ctx]]]

ProviderIssues(th) ==
  /\ call[th].at = "ask" /\ call[th].op \in {"create", "refresh"}
  /\ Answer(th, licence, FALSE)
  /\ UNCHANGED <<open, sessions, licence, units, granted, raced>>

ProviderActivates(th) ==
  /\ call[th].at = "ask" /\ call[th].op = "activate"
  /\ licence' = FullContext
  /\ Answer(th, FullContext, FALSE)
  /\ UNCHANGED <<open, sessions, units, granted, raced>>

QuotaLeft == units > 0

\* Only a trial is charged.
ProviderCharges(th) ==
  /\ call[th].at = "ask" /\ call[th].op \in {"quota", "feature"}
  /\ IF IsTrialEntitlementState(licence)
     THEN QuotaLeft /\ units' = units - 1
     ELSE UNCHANGED units
  /\ Answer(th, licence, TRUE)
  /\ UNCHANGED <<open, sessions, licence, granted, raced>>

ProviderRefuses(th) ==
  /\ call[th].at = "ask"
  /\ Returns(th)
  /\ UNCHANGED <<open, sessions, licence, units, granted, raced>>

(* The third step: the answer is stored.                                   *)

\* CreateSession, RefreshSession and ActivateOffline store it whatever is there now.
StoreSession(th) ==
  /\ call[th].at = "store" /\ call[th].op \in {"create", "refresh", "activate"}
  /\ sessions' = [sessions EXCEPT ![call[th].conn] = call[th].reply]
  /\ Returns(th)
  /\ UNCHANGED <<open, licence, units, granted, raced>>

\* Mutant: quota answers are stored like the others.
UpdateContextAnyway(c, ctx) ==
  \E token \in Tokens : sessions' = [sessions EXCEPT ![c] = [token |-> token, ctx |-> ctx]]

\* ConsumeQuota updates the context of a session that is still there.
UpdateContext(c, ctx) ==
  sessions' = IF sessions[c] = None THEN sessions
              ELSE [sessions EXCEPT ![c] = [token |-> sessions[c].token, ctx |-> ctx]]

StoreContext(th) ==
  /\ call[th].at = "store" /\ call[th].op \in {"quota", "feature"}
  /\ UpdateContext(call[th].conn, call[th].reply.ctx)
  /\ granted' = IF call[th].op = "feature"
                THEN Grant(call[th].need, call[th].seen, call[th].paid) ELSE granted
  /\ Returns(th)
  /\ UNCHANGED <<open, licence, units, raced>>

(* The end of a session: auth.destroy_session and the close handler.       *)

DestroySession(c) ==
  /\ call["io"] = Idle /\ c \in open
  /\ sessions' = [sessions EXCEPT ![c] = None]
  /\ UNCHANGED <<open, call, licence, units, granted, raced>>

Activating(c) == \E th \in Threads : call[th].op = "activate" /\ call[th].conn = c

ClearConnection(c) ==
  /\ call["io"] = Idle /\ c \in open
  /\ open' = open \ {c}
  /\ sessions' = [sessions EXCEPT ![c] = None]
  /\ raced' = IF Activating(c) THEN raced \cup {c} ELSE raced
  /\ UNCHANGED <<call, licence, units, granted>>

ThreadStep(th) ==
  \/ ProviderIssues(th)
  \/ ProviderActivates(th)
  \/ ProviderCharges(th)
  \/ ProviderRefuses(th)
  \/ StoreSession(th)
  \/ StoreContext(th)

Next ==
  \/ \E c \in Conns :
       \/ CreateSession(c)
       \/ RefreshSession(c)
       \/ DestroySession(c)
       \/ ClearConnection(c)
       \/ \E th \in Threads : ActivateOffline(th, c) \/ ConsumeQuota(th, c)
       \/ \E m \in Methods, need \in RequiredTiers : UseFeature(c, m, need)
  \/ RequireFeatureEntitlement
  \/ BindFeature
  \/ \E th \in Threads : ThreadStep(th)

Spec == Init /\ [][Next]_vars

-----------------------------------------------------------------------------
(* Properties.                                                             *)

\* A request passes only with the tier it needs, or on a trial of a licence that has that
\* tier, with commercial authorization for the highest, and then for a unit the provider
\* granted, whatever other threads stored in the session between the three looks at it.
GrantsAreEntitled ==
  granted # None =>
    \/ granted.need = "trial"
    \/ EntitlementRank[granted.ctx.account] >= EntitlementRank[granted.need]
    \/ /\ IsTrialEntitlementState(granted.ctx) /\ granted.paid
       /\ EntitlementRank[granted.ctx.licensed] >= EntitlementRank[granted.need]
       /\ granted.need = "svip_plus" => granted.ctx.commercial

\* A connection that is gone has a session only if an offline activation was under way when
\* it closed: nothing else that was asked of the provider before brings the session back.
ClosedSessionsRaced ==
  \A c \in Conns \ open : sessions[c] # None => c \in raced
=============================================================================
