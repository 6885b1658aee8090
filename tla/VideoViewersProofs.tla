------------------------- MODULE VideoViewersProofs -------------------------
(***************************************************************************)
(* Proofs about Authorization and VideoViewers: the sessions' invariants,  *)
(* and that the viewers' steps are steps of Authorization, so that what is *)
(* proved of sessions holds beside the streams as well.                    *)
(***************************************************************************)
EXTENDS VideoViewers, TLAPS

\* A request that waits for a unit of the trial was found to need one, and a refresh or a
\* creation belongs to the io thread, for which the connection is still there.  An offline
\* activation may have lost its connection meanwhile.
CallOK(th) ==
  LET k == call[th]
  IN /\ k.at # "idle" => k.conn \in Conns
     /\ k.at = "idle" => k = Idle
     /\ k.op = "feature" /\ k.at \in {"bind", "ask", "store"} =>
          k.seen \in Context /\ RequiresTrialQuota(k.seen, k.need)
     /\ k.op = "feature" => k.at \in {"check", "bind", "ask", "store"}
     /\ k.at \in {"check", "bind"} => k.op = "feature"
     /\ k.at = "store" => k.reply \in Session
     /\ k.at = "store" /\ k.op \in {"quota", "feature"} => k.paid
     /\ k.op \in {"create", "refresh", "feature"} => th = "io"
     /\ k.at # "idle" /\ th = "io" => k.conn \in open
     /\ k.op = "activate" => k.conn \in open \cup raced

AuthInv ==
  /\ TypeOK
  /\ \A th \in Threads : CallOK(th)
  /\ GrantsAreEntitled
  /\ ClosedSessionsRaced

LEMMA InitAuth == Init => AuthInv
  <1> SUFFICES ASSUME Init PROVE AuthInv
    OBVIOUS
  <1> USE AuthorizationAssumption DEF Init
  <1>1. TypeOK
    BY DEF TypeOK, Calls, Idle, RequiredTiers
  <1>2. \A th \in Threads : CallOK(th)
    BY DEF CallOK, Idle
  <1>3. GrantsAreEntitled /\ ClosedSessionsRaced
    BY DEF GrantsAreEntitled, ClosedSessionsRaced
  <1> QED
    BY <1>1, <1>2, <1>3 DEF AuthInv

-----------------------------------------------------------------------------
(* One thread's step: the others stay as they are.                         *)

LEMMA CallSet ==
  ASSUME TypeOK, NEW th \in Threads, NEW k \in Calls, call' = [call EXCEPT ![th] = k]
  PROVE  /\ call' \in [Threads -> Calls]
         /\ call'[th] = k
         /\ \A o \in Threads \ {th} : call'[o] = call[o]
  BY DEF TypeOK

LEMMA OthersKeep ==
  ASSUME AuthInv, NEW th \in Threads, NEW k \in Calls, call' = [call EXCEPT ![th] = k],
         UNCHANGED <<open, raced>>, CallOK(th)'
  PROVE  /\ call' \in [Threads -> Calls]
         /\ \A o \in Threads : CallOK(o)'
  <1>1. call' \in [Threads -> Calls] /\ \A o \in Threads \ {th} : call'[o] = call[o]
    BY CallSet DEF AuthInv
  <1>2. \A o \in Threads \ {th} : CallOK(o)'
    <2> TAKE o \in Threads \ {th}
    <2>1. CallOK(o) /\ call'[o] = call[o]
      BY <1>1 DEF AuthInv
    <2> QED
      BY <2>1 DEF CallOK, Idle
  <1> QED
    BY <1>1, <1>2

\* Coming back is always allowed.
LEMMA IdleOK ==
  ASSUME AuthInv, NEW th \in Threads, Returns(th), UNCHANGED <<open, raced>>
  PROVE  call' \in [Threads -> Calls] /\ \A o \in Threads : CallOK(o)'
  <1>1. Idle \in Calls
    BY DEF Idle, Calls, RequiredTiers
  <1>2. call'[th] = Idle
    BY <1>1, CallSet DEF Returns, AuthInv
  <1>3. CallOK(th)'
    BY <1>2 DEF CallOK, Idle
  <1> QED
    BY <1>1, <1>3, OthersKeep DEF Returns

\* A request to the provider on behalf of a connection that has a session, or is there.
LEMMA AskKeeps ==
  ASSUME AuthInv, NEW th \in Threads, NEW c \in Conns,
         NEW op \in {"create", "refresh", "activate", "quota"},
         call' = [call EXCEPT ![th] = AskFor(op, c)],
         op \in {"create", "refresh"} => th = "io",
         th = "io" => c \in open,
         op = "activate" => sessions[c] # None,
         UNCHANGED <<open, sessions, licence, units, granted, raced>>
  PROVE  AuthInv'
  <1> DEFINE k == AskFor(op, c)
  <1>1. k \in Calls
    BY DEF AskFor, Idle, Calls, RequiredTiers
  <1>2. call'[th] = k
    BY <1>1, CallSet DEF AuthInv
  <1>3. op = "activate" => c \in open \cup raced
    BY DEF AuthInv, ClosedSessionsRaced
  <1>a. k.at = "ask" /\ k.op = op /\ k.conn = c
    BY DEF AskFor, Idle
  <1>4. CallOK(th)'
    <2> HIDE DEF k
    <2> QED
      BY <1>2, <1>3, <1>a DEF CallOK
  <1>5. call' \in [Threads -> Calls] /\ \A o \in Threads : CallOK(o)'
    BY <1>1, <1>4, OthersKeep
  <1>6. TypeOK'
    BY <1>5 DEF AuthInv, TypeOK
  <1> QED
    BY <1>5, <1>6 DEF AuthInv, GrantsAreEntitled, ClosedSessionsRaced

\* The provider's answer: a session with the given context.
LEMMA AnswerKeeps ==
  ASSUME AuthInv, NEW th \in Threads, NEW ctx \in Context, NEW paid \in BOOLEAN,
         call[th].at = "ask", Answer(th, ctx, paid),
         call[th].op \in {"quota", "feature"} => paid,
         licence' \in Context, units' \in 0..MaxUnits,
         UNCHANGED <<open, sessions, granted, raced>>
  PROVE  AuthInv'
  <1>1. PICK token \in Tokens :
          call' = [call EXCEPT ![th] = [call[th] EXCEPT !.at = "store", !.paid = paid,
                                          !.reply = [token |-> token, ctx |-> ctx]]]
    BY DEF Answer
  <1> DEFINE reply == [token |-> token, ctx |-> ctx]
             k == [call[th] EXCEPT !.at = "store", !.paid = paid, !.reply = reply]
  <1>2. reply \in Session
    BY DEF Session
  <1>3. call[th] \in Calls /\ CallOK(th)
    BY DEF AuthInv, TypeOK
  <1>4. k \in Calls
    BY <1>2, <1>3 DEF Calls
  <1>5. call'[th] = k
    BY <1>1, <1>4, CallSet DEF AuthInv
  <1>6. /\ k.at = "store" /\ k.op = call[th].op /\ k.conn = call[th].conn
        /\ k.need = call[th].need /\ k.seen = call[th].seen /\ k.reply = reply /\ k.paid = paid
    BY <1>3 DEF Calls
  <1>7. CallOK(th)'
    <2> HIDE DEF k, reply
    <2> QED
      BY <1>2, <1>3, <1>5, <1>6 DEF CallOK, Idle
  <1>8. call' \in [Threads -> Calls] /\ \A o \in Threads : CallOK(o)'
    BY <1>1, <1>4, <1>7, OthersKeep
  <1>9. TypeOK'
    BY <1>8 DEF AuthInv, TypeOK
  <1> QED
    BY <1>8, <1>9 DEF AuthInv, GrantsAreEntitled, ClosedSessionsRaced

-----------------------------------------------------------------------------
(* Every action keeps the invariant.                                       *)

LEMMA UseFeatureKeeps ==
  ASSUME AuthInv, NEW c \in Conns, NEW m \in Methods, NEW need \in RequiredTiers,
         UseFeature(c, m, need)
  PROVE  AuthInv'
  <1> DEFINE k == [Idle EXCEPT !.op = "feature", !.at = "check", !.conn = c, !.need = need]
  <1>1. k \in Calls /\ "io" \in Threads
    BY DEF Idle, Calls, RequiredTiers, Threads
  <1>2. k.at = "check" /\ k.op = "feature" /\ k.conn = c
    BY DEF Idle
  <1>3. call' = [call EXCEPT !["io"] = k] /\ c \in open
    BY DEF UseFeature
  <1>4. UNCHANGED <<open, sessions, licence, units, granted, raced>>
    BY DEF UseFeature
  <1>5. call'["io"] = k
    BY <1>1, <1>3, CallSet DEF AuthInv
  <1>6. CallOK("io")'
    <2> HIDE DEF k
    <2> QED
      BY <1>2, <1>3, <1>4, <1>5 DEF CallOK
  <1>7. call' \in [Threads -> Calls] /\ \A o \in Threads : CallOK(o)'
    BY <1>1, <1>3, <1>4, <1>6, OthersKeep
  <1> QED
    BY <1>4, <1>7 DEF AuthInv, TypeOK, GrantsAreEntitled, ClosedSessionsRaced

\* What is let through without a unit has the tier.
LEMMA NothingNeeded ==
  ASSUME NEW ctx \in Context, NEW need \in RequiredTiers, NeedsNothing(ctx, need)
  PROVE  need = "trial" \/ EntitlementRank[ctx.account] >= EntitlementRank[need]
  BY DEF NeedsNothing, IsEntitlementAtLeast

LEMMA GrantType ==
  ASSUME NEW need \in RequiredTiers, NEW ctx \in Context, NEW paid \in BOOLEAN
  PROVE  /\ Grant(need, ctx, paid) \in [need : RequiredTiers, ctx : Context, paid : BOOLEAN]
         /\ Grant(need, ctx, paid).need = need
         /\ Grant(need, ctx, paid).ctx = ctx
         /\ Grant(need, ctx, paid).paid = paid
  BY DEF Grant

LEMMA RequireFeatureEntitlementKeeps ==
  ASSUME AuthInv, RequireFeatureEntitlement
  PROVE  AuthInv'
  <1> USE AuthorizationAssumption
  <1> DEFINE k == call["io"]
             s == sessions[k.conn]
  <1>1. /\ "io" \in Threads /\ k \in Calls /\ CallOK("io")
        /\ k.op = "feature" /\ k.at = "check"
    BY DEF AuthInv, TypeOK, Threads, RequireFeatureEntitlement
  <1>2. k.conn \in Conns /\ k.need \in RequiredTiers /\ (s # None => s.ctx \in Context)
    BY <1>1 DEF CallOK, Calls, AuthInv, TypeOK, Session
  <1>3. UNCHANGED <<open, sessions, licence, units, raced>>
    BY DEF RequireFeatureEntitlement
  <1>4. CASE s # None /\ NeedsNothing(s.ctx, k.need) /\ Returns("io")
             /\ granted' = Grant(k.need, s.ctx, FALSE)
    <2>1. call' \in [Threads -> Calls] /\ \A o \in Threads : CallOK(o)'
      BY <1>1, <1>3, <1>4, IdleOK
    <2>2. /\ granted' \in [need : RequiredTiers, ctx : Context, paid : BOOLEAN]
          /\ granted'.need = k.need /\ granted'.ctx = s.ctx
      <3>1. k.need \in RequiredTiers /\ s.ctx \in Context
        BY <1>2, <1>4
      <3>2. granted' = Grant(k.need, s.ctx, FALSE)
        BY <1>4
      <3>3. FALSE \in BOOLEAN
        OBVIOUS
      <3> HIDE DEF k, s
      <3> QED
        BY ONLY <3>1, <3>2, <3>3, GrantType
    <2>3. GrantsAreEntitled'
      BY <1>2, <1>4, <2>2, NothingNeeded DEF GrantsAreEntitled
    <2> QED
      BY <1>3, <2>1, <2>2, <2>3 DEF AuthInv, TypeOK, ClosedSessionsRaced
  <1>5. CASE /\ s # None /\ RequiresTrialQuota(s.ctx, k.need) /\ UNCHANGED granted
             /\ call' = [call EXCEPT !["io"] = [k EXCEPT !.at = "bind", !.seen = s.ctx]]
    <2> DEFINE new == [k EXCEPT !.at = "bind", !.seen = s.ctx]
    <2>1. new \in Calls
      BY <1>1, <1>2, <1>5 DEF Calls
    <2>2. /\ new.at = "bind" /\ new.seen = s.ctx /\ new.op = "feature"
          /\ new.conn = k.conn /\ new.need = k.need
      BY <1>1 DEF Calls
    <2>3. call'["io"] = new
      BY <1>1, <1>5, <2>1, CallSet DEF AuthInv
    <2>4. CallOK("io")'
      <3> HIDE DEF new
      <3> QED
        BY <1>1, <1>2, <1>3, <1>5, <2>2, <2>3 DEF CallOK
    <2>5. call' \in [Threads -> Calls] /\ \A o \in Threads : CallOK(o)'
      BY <1>1, <1>3, <1>5, <2>1, <2>4, OthersKeep
    <2> QED
      BY <1>3, <1>5, <2>5 DEF AuthInv, TypeOK, GrantsAreEntitled, ClosedSessionsRaced
  <1>6. CASE Returns("io") /\ UNCHANGED granted
    <2>1. call' \in [Threads -> Calls] /\ \A o \in Threads : CallOK(o)'
      BY <1>1, <1>3, <1>6, IdleOK
    <2> QED
      BY <1>3, <1>6, <2>1 DEF AuthInv, TypeOK, GrantsAreEntitled, ClosedSessionsRaced
  <1> QED
    BY <1>4, <1>5, <1>6 DEF RequireFeatureEntitlement

LEMMA BindFeatureKeeps ==
  ASSUME AuthInv, BindFeature
  PROVE  AuthInv'
  <1> DEFINE k == call["io"]
             new == [k EXCEPT !.at = "ask"]
  <1>1. /\ "io" \in Threads /\ k \in Calls /\ CallOK("io")
        /\ k.op = "feature" /\ k.at = "bind"
    BY DEF AuthInv, TypeOK, Threads, BindFeature
  <1>2. UNCHANGED <<open, sessions, licence, units, granted, raced>>
    BY DEF BindFeature
  <1>3. CASE call' = [call EXCEPT !["io"] = new]
    <2>1. new \in Calls
      BY <1>1 DEF Calls
    <2>2. /\ new.at = "ask" /\ new.seen = k.seen /\ new.op = "feature"
          /\ new.conn = k.conn /\ new.need = k.need
      BY <1>1 DEF Calls
    <2>3. call'["io"] = new
      BY <1>1, <1>3, <2>1, CallSet DEF AuthInv
    <2>4. CallOK("io")'
      <3> HIDE DEF new
      <3> QED
        BY <1>1, <1>2, <2>2, <2>3 DEF CallOK
    <2>5. call' \in [Threads -> Calls] /\ \A o \in Threads : CallOK(o)'
      BY <1>1, <1>2, <1>3, <2>1, <2>4, OthersKeep
    <2> QED
      BY <1>2, <2>5 DEF AuthInv, TypeOK, GrantsAreEntitled, ClosedSessionsRaced
  <1>4. CASE Returns("io")
    <2>1. call' \in [Threads -> Calls] /\ \A o \in Threads : CallOK(o)'
      BY <1>1, <1>2, <1>4, IdleOK
    <2> QED
      BY <1>2, <2>1 DEF AuthInv, TypeOK, GrantsAreEntitled, ClosedSessionsRaced
  <1> QED
    BY <1>3, <1>4 DEF BindFeature

LEMMA StoreSessionKeeps ==
  ASSUME AuthInv, NEW th \in Threads, StoreSession(th)
  PROVE  AuthInv'
  <1> USE AuthorizationAssumption
  <1> DEFINE c == call[th].conn
             reply == call[th].reply
  <1>1. /\ call[th] \in Calls /\ CallOK(th)
        /\ call[th].at = "store" /\ call[th].op \in {"create", "refresh", "activate"}
    BY DEF AuthInv, TypeOK, StoreSession
  <1>2. c \in Conns /\ reply \in Session /\ c \in open \cup raced
    BY <1>1 DEF CallOK
  <1>3. sessions' = [sessions EXCEPT ![c] = reply] /\ Returns(th)
        /\ UNCHANGED <<open, licence, units, granted, raced>>
    BY DEF StoreSession
  <1>4. call' \in [Threads -> Calls] /\ \A o \in Threads : CallOK(o)'
    BY <1>3, IdleOK
  <1>5. sessions' \in [Conns -> Session \cup {None}]
    BY <1>2, <1>3 DEF AuthInv, TypeOK
  <1>6. ClosedSessionsRaced'
    BY <1>2, <1>3 DEF AuthInv, TypeOK, ClosedSessionsRaced
  <1> QED
    BY <1>3, <1>4, <1>5, <1>6 DEF AuthInv, TypeOK, GrantsAreEntitled

LEMMA StoreContextKeeps ==
  ASSUME AuthInv, NEW th \in Threads, StoreContext(th)
  PROVE  AuthInv'
  <1> USE AuthorizationAssumption
  <1> DEFINE k == call[th]
             c == k.conn
             ctx == k.reply.ctx
  <1>1. /\ k \in Calls /\ CallOK(th)
        /\ k.at = "store" /\ k.op \in {"quota", "feature"}
    BY DEF AuthInv, TypeOK, StoreContext
  <1>2. /\ c \in Conns /\ ctx \in Context /\ k.paid /\ k.need \in RequiredTiers
        /\ k.op = "feature" => k.seen \in Context /\ RequiresTrialQuota(k.seen, k.need)
    BY <1>1 DEF CallOK, Session, Calls
  <1>3. UpdateContext(c, ctx) /\ Returns(th) /\ UNCHANGED <<open, licence, units, raced>>
    BY DEF StoreContext
  <1>4. call' \in [Threads -> Calls] /\ \A o \in Threads : CallOK(o)'
    BY <1>3, IdleOK
  <1>5. /\ sessions' \in [Conns -> Session \cup {None}]
        /\ \A d \in Conns : sessions[d] = None => sessions'[d] = None
    <2>1. CASE sessions[c] = None
      BY <1>3, <2>1 DEF UpdateContext, AuthInv, TypeOK
    <2>2. CASE sessions[c] # None
      <3>1. sessions[c] \in Session /\ sessions[c].token \in Tokens
        BY <1>2, <2>2 DEF AuthInv, TypeOK, Session
      <3>2. [token |-> sessions[c].token, ctx |-> ctx] \in Session
        BY <1>2, <3>1 DEF Session
      <3> QED
        BY <1>2, <1>3, <2>2, <3>2 DEF UpdateContext, AuthInv, TypeOK
    <2> QED
      BY <2>1, <2>2
  <1>6. ClosedSessionsRaced'
    BY <1>3, <1>5 DEF AuthInv, ClosedSessionsRaced
  <1>7. CASE k.op = "feature"
    <2>1. granted' = Grant(k.need, k.seen, k.paid)
      BY <1>7 DEF StoreContext
    <2>2. /\ granted' \in [need : RequiredTiers, ctx : Context, paid : BOOLEAN]
          /\ granted'.need = k.need /\ granted'.ctx = k.seen /\ granted'.paid = TRUE
      <3>1. k.need \in RequiredTiers /\ k.seen \in Context /\ k.paid = TRUE
        BY <1>1, <1>2, <1>7 DEF Calls
      <3>2. granted' = Grant(k.need, k.seen, TRUE)
        BY <2>1, <3>1
      <3> HIDE DEF k
      <3> QED
        BY <3>1, <3>2 DEF Grant
    <2>3. GrantsAreEntitled'
      BY <1>2, <1>7, <2>2 DEF GrantsAreEntitled, RequiresTrialQuota, IsEntitlementAtLeast
    <2> QED
      BY <1>3, <1>4, <1>5, <1>6, <2>2, <2>3 DEF AuthInv, TypeOK
  <1>8. CASE k.op # "feature"
    <2>1. UNCHANGED granted
      BY <1>8 DEF StoreContext
    <2> QED
      BY <1>3, <1>4, <1>5, <1>6, <2>1 DEF AuthInv, TypeOK, GrantsAreEntitled
  <1> QED
    BY <1>7, <1>8

\* A session that ends; the io thread is idle, so only other threads can bring it back.
LEMMA DestroySessionKeeps ==
  ASSUME AuthInv, NEW c \in Conns, DestroySession(c)
  PROVE  AuthInv'
  <1> USE AuthorizationAssumption DEF DestroySession
  <1>1. TypeOK' /\ ClosedSessionsRaced'
    BY DEF AuthInv, TypeOK, ClosedSessionsRaced
  <1>2. \A th \in Threads : CallOK(th)'
    BY DEF AuthInv, CallOK, Idle
  <1> QED
    BY <1>1, <1>2 DEF AuthInv, GrantsAreEntitled

LEMMA ClearConnectionKeeps ==
  ASSUME AuthInv, NEW c \in Conns, ClearConnection(c)
  PROVE  AuthInv'
  <1> USE AuthorizationAssumption
  <1>1. /\ call["io"] = Idle /\ open' = open \ {c} /\ raced' \in {raced, raced \cup {c}}
        /\ sessions' = [sessions EXCEPT ![c] = None]
        /\ UNCHANGED <<call, licence, units, granted>>
        /\ Activating(c) => c \in raced'
    BY DEF ClearConnection
  <1>2. TypeOK' /\ ClosedSessionsRaced'
    BY <1>1 DEF AuthInv, TypeOK, ClosedSessionsRaced
  <1>3. ASSUME NEW th \in Threads PROVE CallOK(th)'
    <2>1. CallOK(th) /\ call'[th] = call[th] /\ call[th] \in Calls
      BY <1>1 DEF AuthInv, TypeOK
    <2>2. th = "io" => call[th].at = "idle"
      BY <1>1 DEF Idle
    <2>3. call[th].op = "activate" => call[th].conn \in open' \cup raced'
      BY <1>1, <2>1 DEF CallOK, Activating
    <2> QED
      BY <2>1, <2>2, <2>3 DEF CallOK, Idle
  <1> QED
    BY <1>1, <1>2, <1>3 DEF AuthInv, GrantsAreEntitled

LEMMA ThreadStepKeeps ==
  ASSUME AuthInv, NEW th \in Threads, ThreadStep(th)
  PROVE  AuthInv'
  <1> USE AuthorizationAssumption
  <1>0. licence \in Context /\ units \in 0..MaxUnits
    BY DEF AuthInv, TypeOK
  <1>1. CASE ProviderIssues(th)
    BY <1>0, <1>1, AnswerKeeps DEF ProviderIssues
  <1>2. CASE ProviderActivates(th)
    BY <1>0, <1>2, AnswerKeeps DEF ProviderActivates
  <1>3. CASE ProviderCharges(th)
    <2>1. units' \in 0..MaxUnits
      BY <1>0, <1>3 DEF ProviderCharges, QuotaLeft
    <2> QED
      BY <1>0, <1>3, <2>1, AnswerKeeps DEF ProviderCharges, QuotaLeft
  <1>4. CASE ProviderRefuses(th)
    <2>1. UNCHANGED <<open, sessions, licence, units, granted, raced>> /\ Returns(th)
      BY <1>4 DEF ProviderRefuses
    <2>2. call' \in [Threads -> Calls] /\ \A o \in Threads : CallOK(o)'
      BY <2>1, IdleOK
    <2> QED
      BY <2>1, <2>2 DEF AuthInv, TypeOK, GrantsAreEntitled, ClosedSessionsRaced
  <1>5. CASE StoreSession(th)
    BY <1>5, StoreSessionKeeps
  <1>6. CASE StoreContext(th)
    BY <1>6, StoreContextKeeps
  <1> QED
    BY <1>1, <1>2, <1>3, <1>4, <1>5, <1>6 DEF ThreadStep

LEMMA NextAuth == AuthInv /\ [Next]_vars => AuthInv'
  <1> SUFFICES ASSUME AuthInv, [Next]_vars PROVE AuthInv'
    OBVIOUS
  <1>1. CASE UNCHANGED vars
    BY <1>1 DEF vars, AuthInv, TypeOK, CallOK, GrantsAreEntitled, ClosedSessionsRaced
  <1>2. ASSUME NEW c \in Conns, CreateSession(c) PROVE AuthInv'
    BY <1>2, AskKeeps DEF CreateSession, Threads
  <1>3. ASSUME NEW c \in Conns, RefreshSession(c) PROVE AuthInv'
    BY <1>3, AskKeeps DEF RefreshSession, Threads
  <1>4. ASSUME NEW c \in Conns, NEW th \in Threads, ActivateOffline(th, c) PROVE AuthInv'
    BY <1>4, AskKeeps DEF ActivateOffline
  <1>5. ASSUME NEW c \in Conns, NEW th \in Threads, ConsumeQuota(th, c) PROVE AuthInv'
    BY <1>5, AskKeeps DEF ConsumeQuota
  <1> QED
    BY <1>1, <1>2, <1>3, <1>4, <1>5, UseFeatureKeeps, RequireFeatureEntitlementKeeps,
       BindFeatureKeeps, DestroySessionKeeps, ClearConnectionKeeps, ThreadStepKeeps DEF Next

LEMMA AuthInvHolds == Spec => []AuthInv
  BY InitAuth, NextAuth, PTL DEF Spec

\* The sessions keep their shape whatever the threads do to them.
THEOREM SessionsWellFormed == Spec => []TypeOK
  <1>1. AuthInv => TypeOK
    BY DEF AuthInv
  <1> QED
    BY <1>1, AuthInvHolds, PTL

\* No request passes without its tier or a unit paid for it, for any licences, any number
\* of connections and any interleaving of the three threads.
THEOREM OnlyEntitledPass == Spec => []GrantsAreEntitled
  <1>1. AuthInv => GrantsAreEntitled
    BY DEF AuthInv
  <1> QED
    BY <1>1, AuthInvHolds, PTL

\* Only an offline activation under way brings the session of a closed connection back.
THEOREM ClosedStayClosed == Spec => []ClosedSessionsRaced
  <1>1. AuthInv => ClosedSessionsRaced
    BY DEF AuthInv
  <1> QED
    BY <1>1, AuthInvHolds, PTL

-----------------------------------------------------------------------------
(* The composition implements Authorization.                               *)

VideoConnOK == video.op \in {"register", "destroy"} => video.conn \in Conns

LEMMA VideoConnStep ==
  ASSUME VideoConnOK, VideoNext
  PROVE  VideoConnOK'
  <1>1. ASSUME NEW c \in Conns, VideoStart(c) \/ VideoStop(c) \/ Destroy(c) \/ Close(c)
        PROVE VideoConnOK'
    <2>1. CASE VideoStart(c)
      BY <2>1 DEF VideoStart, VideoConnOK, Resting
    <2>2. CASE VideoStop(c)
      BY <2>2 DEF VideoStop, VideoConnOK, Resting
    <2>3. CASE Destroy(c)
      BY <2>3 DEF Destroy, VideoConnOK, Resting
    <2>4. CASE Close(c)
      BY <2>4 DEF Close, VideoConnOK, Resting
    <2> QED
      BY <1>1, <2>1, <2>2, <2>3, <2>4
  <1>2. CASE UNCHANGED video
    BY <1>2 DEF VideoConnOK
  <1>3. CASE IoStep
    <2>1. CASE RegisterStream
      BY <2>1 DEF RegisterStream, VideoConnOK
    <2>2. CASE ProviderStarts
      BY <2>2 DEF ProviderStarts, VideoConnOK, Resting
    <2>3. ASSUME NEW s \in Streams, StreamClosed(s) PROVE VideoConnOK'
      BY <2>3 DEF StreamClosed, VideoConnOK
    <2>4. CASE Cleared
      BY <2>4 DEF Cleared, VideoConnOK, Resting
    <2> QED
      BY <1>3, <2>1, <2>2, <2>3, <2>4 DEF IoStep
  <1> QED
    BY <1>1, <1>2, <1>3
    DEF VideoNext, SessionStep, videoVars, DeviceRemoved, RemovedStreamClosed, PublishFrame,
        Connect, OpenViewer, CloseHandler, ViewerLeaves, Moves, RunPosted, StopListener,
        StartListener

LEMMA VideoStepIsStep ==
  ASSUME VideoConnOK, [VideoNext]_allVars
  PROVE  [Next]_vars
  <1>1. CASE UNCHANGED allVars
    BY <1>1 DEF allVars
  <1>2. CASE SessionStep
    <2>1. ASSUME NEW c \in Conns,
                 \/ CreateSession(c)
                 \/ RefreshSession(c)
                 \/ ActivateOffline("io", c)
                 \/ ActivateOffline("http", c)
                 \/ ConsumeQuota("io", c)
                 \/ ConsumeQuota("grab", c)
                 \/ \E m \in Methods, need \in RequiredTiers : UseFeature(c, m, need)
          PROVE Next
      BY <2>1 DEF Next, Threads
    <2> QED
      BY <1>2, <2>1 DEF SessionStep, Next
  <1>3. ASSUME NEW c \in Conns, Close(c) PROVE Next
    BY <1>3 DEF Close, Next
  <1>4. CASE Cleared
    <2>1. CASE video.op = "destroy"
      BY <1>4, <2>1 DEF Cleared, VideoConnOK, Next
    <2>2. CASE video.op # "destroy"
      BY <1>4, <2>2 DEF Cleared
    <2> QED
      BY <2>1, <2>2
  <1>5. CASE UNCHANGED vars
    BY <1>5
  <1>6. ASSUME VideoNext, ~SessionStep, ~Cleared, \A c \in Conns : ~Close(c)
        PROVE UNCHANGED vars
    BY <1>6
    DEF VideoNext, IoStep, RegisterStream, ProviderStarts, StreamClosed, VideoStart, VideoStop,
        Destroy, DeviceRemoved, RemovedStreamClosed, PublishFrame, Connect, OpenViewer,
        CloseHandler, ViewerLeaves, Moves, RunPosted, StopListener, StartListener
  <1> QED
    BY <1>1, <1>2, <1>3, <1>4, <1>5, <1>6

\* Streams and viewers only add to what the sessions do: every step of the composition is a
\* step of Authorization or leaves the sessions alone.
THEOREM ViewersRefineSessions == VideoSpec => Spec
  <1>1. VideoInit => Init /\ VideoConnOK
    BY DEF VideoInit, VideoConnOK, Resting
  <1>2. VideoConnOK /\ [VideoNext]_allVars => VideoConnOK'
    <2>1. VideoConnOK /\ UNCHANGED allVars => VideoConnOK'
      BY DEF allVars, videoVars, VideoConnOK
    <2> QED
      BY <2>1, VideoConnStep
  <1>3. VideoConnOK /\ [VideoNext]_allVars => [Next]_vars
    BY VideoStepIsStep
  <1> QED
    BY <1>1, <1>2, <1>3, PTL DEF VideoSpec, Spec

\* Beside streams, viewers and restarts, too, no request passes without its tier, and a
\* closed connection stays closed.
THEOREM SessionsSafeWithViewers == VideoSpec => [](GrantsAreEntitled /\ ClosedSessionsRaced)
  BY ViewersRefineSessions, OnlyEntitledPass, ClosedStayClosed, PTL

-----------------------------------------------------------------------------
(* Viewers do not outlive their stream.                                    *)

Closing == [kind : {"close", "frame"}, stream : Streams, targets : SUBSET Viewers]

VideoType ==
  /\ DOMAIN bindings = Streams
  /\ nextStream \in 1..(MaxStreams + 1)
  /\ DOMAIN video = {"op", "conn", "token", "todo"}
  /\ video.op \in {"idle", "register", "start", "stop", "destroy"}
  /\ video.todo \subseteq Streams
  /\ video.op = "register" => video.conn \in Conns /\ video.token \in Tokens
  /\ removing \subseteq Streams
  /\ serving \in BOOLEAN
  /\ viewer \in [Viewers -> [at : {"away", "pending", "active", "closing", "left"}, stream : Nat]]
  /\ \A v \in Viewers : viewer[v].at \notin {"away", "left"} => serving /\ viewer[v].stream \in Streams
  /\ posted \in Seq(Closing)

\* What video.start has not answered yet is bound and known to nobody.
StartInv ==
  /\ told \cup producing \subseteq 1..(nextStream - 1) /\ producing \subseteq told
  /\ video.op \in {"idle", "register"} => video.todo = {}
  /\ video.op = "start" =>
       /\ video.todo = {nextStream - 1} /\ nextStream - 1 \notin told
       /\ \A s \in video.todo : bindings[s] # None

\* Whoever looks at a stream that is no longer bound, and was told of, will be closed,
\* or was not open yet when the stream was closed.
LeavingInv ==
  \A v \in Viewers :
    LET s == viewer[v].stream
    IN viewer[v].at \in {"pending", "active"} /\ bindings[s] = None =>
         CloseDue(s) \/ v \in late \/ s \notin told \/ (viewer[v].at = "active" /\ ClosePosted(v))

VideoInv == VideoType /\ StartInv /\ LeavingInv

LEMMA VideoInitInv == VideoInit => VideoInv
<1> SUFFICES ASSUME VideoInit PROVE VideoInv
  OBVIOUS
<1>1. VideoType
  BY VideoAssumption DEF VideoInit, VideoType, Resting, Away, Streams
<1>2. StartInv /\ LeavingInv
  BY DEF VideoInit, StartInv, LeavingInv, Resting, Away
<1> QED BY <1>1, <1>2 DEF VideoInv

\* What the steps of other threads leave alone.
LEMMA VideoFrame ==
  ASSUME VideoInv, UNCHANGED videoVars
  PROVE  VideoInv'
BY DEF VideoInv, VideoType, StartInv, LeavingInv, videoVars, CloseDue, ClosePosted

LEMMA VideoStartKeeps ==
  ASSUME TypeOK, VideoInv, NEW c \in Conns, VideoStart(c)
  PROVE  VideoInv'
<1>1. /\ video = Resting /\ video' = [Resting EXCEPT !.op = "register", !.conn = c, !.token = sessions[c].token]
      /\ UNCHANGED <<bindings, nextStream, removing, producing, serving, viewer, posted, told, late>>
  BY DEF VideoStart, IoFree
<1>2. sessions[c].token \in Tokens
  BY DEF VideoStart, TypeOK, Session
<1>3. video' = [op |-> "register", conn |-> c, token |-> sessions[c].token, todo |-> {}]
  BY <1>1 DEF Resting
<1>4. video.todo = {}
  BY <1>1 DEF Resting
<1> QED BY <1>1, <1>2, <1>3, <1>4 DEF VideoInv, VideoType, StartInv, LeavingInv, CloseDue, ClosePosted

LEMMA RegisterStreamKeeps ==
  ASSUME VideoInv, RegisterStream
  PROVE  VideoInv'
<1>1. /\ video.op = "register" /\ nextStream \in Streams /\ nextStream' = nextStream + 1
      /\ bindings' = [bindings EXCEPT ![nextStream] = [conn |-> video.conn, token |-> video.token]]
      /\ video' = [video EXCEPT !.op = "start", !.todo = {nextStream}]
      /\ UNCHANGED <<removing, producing, serving, viewer, posted, told, late>>
  BY DEF RegisterStream
<1>2. /\ DOMAIN video' = {"op", "conn", "token", "todo"} /\ video'.op = "start" /\ video'.todo = {nextStream}
  BY <1>1 DEF VideoInv, VideoType
<1>3. [conn |-> video.conn, token |-> video.token] # None
  BY <1>1, VideoAssumption DEF VideoInv, VideoType
<1>4. /\ DOMAIN bindings' = Streams /\ bindings'[nextStream] # None
      /\ \A s \in Streams : s # nextStream => bindings'[s] = bindings[s]
  BY <1>1, <1>3 DEF VideoInv, VideoType
<1>5. VideoType'
  BY <1>1, <1>2, <1>4, VideoAssumption DEF VideoInv, VideoType, Streams
<1>6. StartInv'
  <2>1. nextStream \in Nat /\ nextStream' - 1 = nextStream
    BY <1>1, VideoAssumption DEF Streams
  <2>2. told \cup producing \subseteq 1..(nextStream' - 1) /\ nextStream \notin told
    BY <2>1 DEF VideoInv, StartInv
  <2> QED BY <1>1, <1>2, <1>4, <2>1, <2>2 DEF VideoInv, StartInv
<1>7. LeavingInv'
  BY <1>1, <1>2, <1>4 DEF VideoInv, VideoType, StartInv, LeavingInv, CloseDue, ClosePosted
<1> QED BY <1>5, <1>6, <1>7 DEF VideoInv

LEMMA ProviderStartsKeeps ==
  ASSUME VideoInv, ProviderStarts
  PROVE  VideoInv'
<1>1. /\ video.op = "start" /\ video' = Resting
      /\ UNCHANGED <<nextStream, removing, serving, viewer, posted, late>>
  BY DEF ProviderStarts
<1>2. VideoType'
  BY <1>1 DEF ProviderStarts, Unbound, VideoInv, VideoType, Resting
<1>3. StartInv'
  BY <1>1, VideoAssumption DEF ProviderStarts, VideoInv, VideoType, StartInv, Resting, Streams
<1>4. LeavingInv'
  <2>1. CASE told' = told \cup video.todo /\ UNCHANGED bindings
    BY <1>1, <2>1 DEF VideoInv, VideoType, StartInv, LeavingInv, CloseDue, ClosePosted, Resting
  <2>2. CASE Unbound(video.todo) /\ UNCHANGED told
    <3>1. /\ \A s \in video.todo : s \notin told
          /\ \A s \in Streams : s \notin video.todo => bindings'[s] = bindings[s]
      BY <1>1, <2>2 DEF Unbound, VideoInv, StartInv
    <3> QED BY <1>1, <2>2, <3>1 DEF VideoInv, VideoType, LeavingInv, CloseDue, ClosePosted, Resting
  <2> QED BY <2>1, <2>2 DEF ProviderStarts
<1> QED BY <1>2, <1>3, <1>4 DEF VideoInv

\* The streams S are unbound, and their close is due.
LEMMA UnboundKeeps ==
  ASSUME VideoInv, NEW S \in SUBSET Streams, video = Resting, Unbound(S),
         DOMAIN video' = {"op", "conn", "token", "todo"}, video'.op \in {"stop", "destroy"}, video'.todo = S,
         producing' \subseteq producing,
         UNCHANGED <<nextStream, removing, serving, viewer, posted, told, late>>
  PROVE  VideoInv'
<1>1. /\ video.todo = {} /\ DOMAIN bindings' = Streams
      /\ \A s \in Streams : s \notin S => bindings'[s] = bindings[s]
  BY DEF Unbound, Resting
<1>2. VideoType' /\ StartInv'
  BY <1>1 DEF VideoInv, VideoType, StartInv
<1>3. LeavingInv'
  BY <1>1 DEF VideoInv, VideoType, LeavingInv, CloseDue, ClosePosted
<1> QED BY <1>2, <1>3 DEF VideoInv

LEMMA UnbindingKeeps ==
  ASSUME VideoInv, NEW c \in Conns, VideoStop(c) \/ Destroy(c) \/ Close(c)
  PROVE  VideoInv'
<1>a. StreamsOf(c) \in SUBSET Streams
  BY DEF StreamsOf
<1>1. ASSUME NEW s \in StreamsOf(c), VideoStop(c), producing' = producing \ {s}, Unbound({s}),
             video' = [Resting EXCEPT !.op = "stop", !.todo = {s}]
      PROVE  VideoInv'
  <2>1. /\ {s} \in SUBSET Streams /\ video = Resting /\ producing' \subseteq producing
        /\ video' = [op |-> "stop", conn |-> None, token |-> None, todo |-> {s}]
        /\ UNCHANGED <<nextStream, removing, serving, viewer, posted, told, late>>
    BY <1>1, <1>a DEF VideoStop, IoFree, Resting
  <2>2. DOMAIN video' = {"op", "conn", "token", "todo"} /\ video'.op = "stop" /\ video'.todo = {s}
    BY <2>1
  <2> QED BY <1>1, <2>1, <2>2, UnboundKeeps
<1>2. CASE Destroy(c) \/ Close(c)
  <2>1. /\ video = Resting /\ producing' \subseteq producing /\ Unbound(StreamsOf(c))
        /\ \/ video' = [op |-> "destroy", conn |-> c, token |-> None, todo |-> StreamsOf(c)]
           \/ video' = [op |-> "stop", conn |-> None, token |-> None, todo |-> StreamsOf(c)]
        /\ UNCHANGED <<nextStream, removing, serving, viewer, posted, told, late>>
    BY <1>2 DEF Destroy, Close, IoFree, Resting
  <2>2. /\ DOMAIN video' = {"op", "conn", "token", "todo"} /\ video'.op \in {"stop", "destroy"}
        /\ video'.todo = StreamsOf(c)
    BY <2>1
  <2> QED BY <1>a, <2>1, <2>2, UnboundKeeps
<1> QED BY <1>1, <1>2 DEF VideoStop

LEMMA ClearedKeeps ==
  ASSUME VideoInv, Cleared
  PROVE  VideoInv'
<1>1. /\ video.todo = {} /\ video' = Resting
      /\ UNCHANGED <<bindings, nextStream, removing, producing, serving, viewer, posted, told, late>>
  BY DEF Cleared
<1> QED BY <1>1 DEF VideoInv, VideoType, StartInv, LeavingInv, CloseDue, ClosePosted, Resting

\* CloseStream passes every viewer of the stream on, or finds it not open yet.
LEMMA CloseStreamReaches ==
  ASSUME VideoInv, NEW s \in Streams, CloseStream(s), UNCHANGED viewer
  PROVE  /\ posted' \in Seq(Closing) /\ late \subseteq late'
         /\ \A v \in Viewers : ClosePosted(v) => ClosePosted(v)'
         /\ \A v \in Viewers : viewer[v].stream = s /\ viewer[v].at \in {"pending", "active"} =>
              v \in late' \/ (viewer[v].at = "active" /\ ClosePosted(v)')
<1> DEFINE e == [kind |-> "close", stream |-> s, targets |-> Attached(s)]
<1>1. posted \in Seq(Closing) /\ e \in Closing
  BY DEF VideoInv, VideoType, Closing, Attached
<1>2. e.kind = "close" /\ e.targets = Attached(s)
  OBVIOUS
<1>3. posted' = posted \/ posted' = Append(posted, e)
  BY DEF CloseStream
<1> HIDE DEF e
<1>4. posted' \in Seq(Closing) /\ \A i \in DOMAIN posted : i \in DOMAIN posted' /\ posted'[i] = posted[i]
  BY <1>1, <1>3
<1>5. \A v \in Viewers : ClosePosted(v) => ClosePosted(v)'
  BY <1>4 DEF ClosePosted
<1>6. ASSUME NEW v \in Viewers, viewer[v].stream = s, viewer[v].at = "pending" PROVE v \in late'
  <2>1. viewer[v] = [at |-> "pending", stream |-> s]
    BY <1>6 DEF VideoInv, VideoType
  <2> QED BY <2>1 DEF CloseStream
<1>7. ASSUME NEW v \in Viewers, viewer[v].stream = s, viewer[v].at = "active" PROVE ClosePosted(v)'
  <2>1. v \in Attached(s) /\ serving
    BY <1>7 DEF Attached, VideoInv, VideoType
  <2>2. posted' = Append(posted, e)
    BY <2>1 DEF CloseStream, e
  <2>3. Len(posted) + 1 \in DOMAIN posted' /\ posted'[Len(posted) + 1] = e
    BY <1>1, <2>2
  <2> QED BY <1>2, <2>1, <2>3 DEF ClosePosted
<1> QED BY <1>4, <1>5, <1>6, <1>7 DEF CloseStream

LEMMA StreamClosedKeeps ==
  ASSUME VideoInv, NEW s \in Streams, StreamClosed(s)
  PROVE  VideoInv'
<1>1. /\ video.op \in {"stop", "destroy"} /\ s \in video.todo /\ CloseStream(s)
      /\ producing' \subseteq producing /\ video' = [video EXCEPT !.todo = @ \ {s}]
      /\ UNCHANGED <<bindings, nextStream, removing, serving, viewer, told>>
  BY DEF StreamClosed
<1>2. DOMAIN video' = {"op", "conn", "token", "todo"} /\ video'.op = video.op /\ video'.todo = video.todo \ {s}
  BY <1>1 DEF VideoInv, VideoType
<1>3. VideoType' /\ StartInv'
  BY <1>1, <1>2, CloseStreamReaches DEF VideoInv, VideoType, StartInv
<1>4. LeavingInv'
  BY <1>1, <1>2, CloseStreamReaches DEF VideoInv, LeavingInv, CloseDue
<1> QED BY <1>3, <1>4 DEF VideoInv

LEMMA RemovedStreamClosedKeeps ==
  ASSUME VideoInv, RemovedStreamClosed
  PROVE  VideoInv'
<1>1. PICK s \in removing : CloseStream(s) /\ removing' = removing \ {s}
        /\ UNCHANGED <<bindings, nextStream, video, producing, serving, viewer, told>>
  BY DEF RemovedStreamClosed
<1>2. s \in Streams
  BY DEF VideoInv, VideoType
<1>3. VideoType' /\ StartInv'
  BY <1>1, <1>2, CloseStreamReaches DEF VideoInv, VideoType, StartInv
<1>4. LeavingInv'
  BY <1>1, <1>2, CloseStreamReaches DEF VideoInv, LeavingInv, CloseDue
<1> QED BY <1>3, <1>4 DEF VideoInv

LEMMA DeviceRemovedKeeps ==
  ASSUME VideoInv, DeviceRemoved
  PROVE  VideoInv'
<1>1. PICK s \in producing : /\ removing' = IF bindings[s] # None THEN {s} ELSE {}
                             /\ producing' = producing \ {s} /\ Unbound({s})
  BY DEF DeviceRemoved
<1>2. /\ removing = {} /\ UNCHANGED <<nextStream, video, serving, viewer, posted, told, late>>
  BY DEF DeviceRemoved
<1>3. /\ s \in Streams /\ s \in told
      /\ DOMAIN bindings' = Streams /\ \A r \in Streams : r # s => bindings'[r] = bindings[r]
  BY <1>1, VideoAssumption DEF Unbound, VideoInv, VideoType, StartInv, Streams
<1>4. VideoType' /\ StartInv'
  BY <1>1, <1>2, <1>3 DEF VideoInv, VideoType, StartInv
<1>5. LeavingInv'
  BY <1>1, <1>2, <1>3 DEF VideoInv, VideoType, LeavingInv, CloseDue, ClosePosted
<1> QED BY <1>4, <1>5 DEF VideoInv

LEMMA PublishFrameKeeps ==
  ASSUME VideoInv, NEW s \in Streams, PublishFrame(s)
  PROVE  VideoInv'
<1> DEFINE e == [kind |-> "frame", stream |-> s, targets |-> Attached(s)]
<1>1. posted \in Seq(Closing) /\ e \in Closing /\ posted' = Append(posted, e)
  BY DEF PublishFrame, VideoInv, VideoType, Closing, Attached
<1> HIDE DEF e
<1>2. posted' \in Seq(Closing) /\ \A i \in DOMAIN posted : i \in DOMAIN posted' /\ posted'[i] = posted[i]
  BY <1>1
<1>3. \A v \in Viewers : ClosePosted(v) => ClosePosted(v)'
  BY <1>2 DEF ClosePosted
<1>4. UNCHANGED <<bindings, nextStream, video, removing, producing, serving, viewer, told, late>>
  BY DEF PublishFrame
<1> QED BY <1>2, <1>3, <1>4 DEF VideoInv, VideoType, StartInv, LeavingInv, CloseDue

LEMMA ConnectKeeps ==
  ASSUME VideoInv, NEW v \in Viewers, Connect(v)
  PROVE  VideoInv'
<1>1. PICK s \in Streams, token \in Tokens :
        bindings[s] # None /\ viewer' = [viewer EXCEPT ![v] = [at |-> "pending", stream |-> s]]
  BY DEF Connect, Validate
<1>2. serving /\ UNCHANGED <<bindings, nextStream, video, removing, producing, serving, posted, told, late>>
  BY DEF Connect
<1>3. \A u \in Viewers : viewer'[u] = IF u = v THEN [at |-> "pending", stream |-> s] ELSE viewer[u]
  BY <1>1 DEF VideoInv, VideoType
<1>4. VideoType' /\ StartInv'
  BY <1>1, <1>2, <1>3 DEF VideoInv, VideoType, StartInv, Streams
<1>5. LeavingInv'
  BY <1>1, <1>2, <1>3 DEF VideoInv, LeavingInv, CloseDue, ClosePosted
<1> QED BY <1>4, <1>5 DEF VideoInv

LEMMA MovesKeeps ==
  ASSUME VideoInv, NEW v \in Viewers, OpenViewer(v) \/ CloseHandler(v) \/ ViewerLeaves(v)
  PROVE  VideoInv'
<1>1. PICK to \in {"active", "left"} :
        /\ viewer' = [viewer EXCEPT ![v].at = to]
        /\ to = "active" => viewer[v].at = "pending"
  BY DEF OpenViewer, CloseHandler, ViewerLeaves, Moves
<1>2. serving /\ UNCHANGED <<bindings, nextStream, video, removing, producing, serving, posted, told, late>>
  BY DEF OpenViewer, CloseHandler, ViewerLeaves, Moves
<1>3. \A u \in Viewers : /\ viewer'[u].stream = viewer[u].stream
                          /\ viewer'[u].at = IF u = v THEN to ELSE viewer[u].at
  BY <1>1 DEF VideoInv, VideoType
<1>4. viewer' \in [Viewers -> [at : {"away", "pending", "active", "closing", "left"}, stream : Nat]]
  BY <1>1 DEF VideoInv, VideoType
<1>5. VideoType' /\ StartInv'
  BY <1>1, <1>2, <1>3, <1>4 DEF VideoInv, VideoType, StartInv
<1>6. LeavingInv'
  BY <1>1, <1>2, <1>3 DEF VideoInv, LeavingInv, CloseDue, ClosePosted
<1> QED BY <1>5, <1>6 DEF VideoInv

LEMMA RunPostedKeeps ==
  ASSUME VideoInv, RunPosted
  PROVE  VideoInv'
<1>1. /\ serving /\ posted # <<>> /\ posted' = Tail(posted) /\ posted \in Seq(Closing)
      /\ UNCHANGED <<bindings, nextStream, video, removing, producing, serving, told, late>>
  BY DEF RunPosted, VideoInv, VideoType
<1>2. /\ 1 \in DOMAIN posted /\ Head(posted) = posted[1] /\ posted' \in Seq(Closing)
      /\ \A i \in DOMAIN posted : i = 1 \/ (i - 1 \in DOMAIN posted' /\ posted'[i - 1] = posted[i])
  BY <1>1
<1>3. viewer' \in [Viewers -> [at : {"away", "pending", "active", "closing", "left"}, stream : Nat]]
  BY DEF RunPosted, VideoInv, VideoType
<1>4. \A v \in Viewers :
        /\ viewer'[v].stream = viewer[v].stream
        /\ viewer'[v].at = viewer[v].at \/ (viewer[v].at = "active" /\ viewer'[v].at = "closing")
        /\ Head(posted).kind = "close" /\ v \in Head(posted).targets => viewer'[v].at # "active"
  BY <1>1, <1>2 DEF RunPosted, VideoInv, VideoType, Closing
<1>5. \A v \in Viewers : ClosePosted(v) /\ viewer'[v].at = "active" => ClosePosted(v)'
  BY <1>2, <1>4 DEF ClosePosted
<1>6. VideoType' /\ StartInv'
  BY <1>1, <1>2, <1>3, <1>4 DEF VideoInv, VideoType, StartInv
<1>7. LeavingInv'
  BY <1>1, <1>4, <1>5 DEF VideoInv, LeavingInv, CloseDue
<1> QED BY <1>6, <1>7 DEF VideoInv

LEMMA ListenerKeeps ==
  ASSUME VideoInv, StopListener \/ StartListener
  PROVE  VideoInv'
<1>1. CASE StopListener
  <2>1. /\ serving' = FALSE /\ posted' = <<>>
        /\ UNCHANGED <<bindings, nextStream, video, removing, producing, told, late>>
    BY <1>1 DEF StopListener
  <2>2. viewer' \in [Viewers -> [at : {"away", "pending", "active", "closing", "left"}, stream : Nat]]
    BY <1>1 DEF StopListener, VideoInv, VideoType, Away
  <2>3. \A v \in Viewers : viewer'[v].at \in {"away", "left"}
    BY <1>1 DEF StopListener, VideoInv, VideoType, Away
  <2>4. serving' \in BOOLEAN
    BY <2>1
  <2>5. posted' \in Seq(Closing)
    BY <2>1
  <2>6. VideoType'
    BY <2>1, <2>2, <2>3, <2>4, <2>5 DEF VideoInv, VideoType
  <2>7. StartInv' /\ LeavingInv'
    BY <2>1, <2>3 DEF VideoInv, StartInv, LeavingInv
  <2> QED BY <2>6, <2>7 DEF VideoInv
<1>2. CASE StartListener
  <2>1. /\ serving' = TRUE
        /\ UNCHANGED <<bindings, nextStream, video, removing, producing, viewer, posted, told, late>>
    BY <1>2 DEF StartListener
  <2> QED BY <2>1 DEF VideoInv, VideoType, StartInv, LeavingInv, CloseDue, ClosePosted
<1> QED BY <1>1, <1>2

LEMMA VideoStepInv == TypeOK /\ VideoInv /\ [VideoNext]_allVars => VideoInv'
<1> SUFFICES ASSUME TypeOK, VideoInv, [VideoNext]_allVars PROVE VideoInv'
  OBVIOUS
<1>1. CASE SessionStep \/ UNCHANGED allVars
  BY <1>1, VideoFrame DEF SessionStep, allVars
<1>2. CASE IoStep
  BY <1>2, RegisterStreamKeeps, ProviderStartsKeeps, StreamClosedKeeps, ClearedKeeps DEF IoStep
<1> QED BY <1>1, <1>2, VideoStartKeeps, UnbindingKeeps, DeviceRemovedKeeps, RemovedStreamClosedKeeps,
           PublishFrameKeeps, ConnectKeeps, MovesKeeps, RunPostedKeeps, ListenerKeeps DEF VideoNext

\* Whoever watches a stream that video.stop, auth.destroy_session, a closed connection or a
\* removed device has unbound is about to be closed, in every interleaving of the command
\* and video io threads, the provider and a restart of the listener; left are only viewers
\* whose stream was closed between their validation and their opening.
THEOREM ViewersFollowStreams == VideoSpec => []OnlyLateViewersLinger
<1>1. VideoInv => OnlyLateViewersLinger
  BY DEF VideoInv, LeavingInv, OnlyLateViewersLinger
<1>2. VideoSpec => []TypeOK
  BY ViewersRefineSessions, SessionsWellFormed, PTL
<1> QED BY <1>1, <1>2, VideoInitInv, VideoStepInv, PTL DEF VideoSpec
=============================================================================
