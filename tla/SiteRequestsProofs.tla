------------------------- MODULE SiteRequestsProofs -------------------------
(***************************************************************************)
(* What the grants and the requests of the sites keep, for any number of   *)
(* sites and calls.  The inductive invariant says who stands in the queue  *)
(* of grant operations, counts the changes of a connection that are open,  *)
(* and ties the prompt to the call and the session it belongs to.          *)
(***************************************************************************)
EXTENDS SiteRequests, FiniteSetTheorems, TLAPS

\* m's call is where it awaits m.
Awaited(m) ==
  \/ m.op = "grant" /\ m.by \in Connects /\ pc[m.by] = "granting"
  \/ m.op = "revokeIf" /\ m.by \in Connects /\ pc[m.by] = "undoing"
  \/ m.op = "revoke" /\ m.by \in Disconnects /\ pc[m.by] = "revoking"

QueueInv ==
  /\ \A i \in 1..Len(mutations) : Awaited(mutations[i])
  /\ \A i, j \in 1..Len(mutations) : mutations[i].by = mutations[j].by => i = j
  /\ mutations = <<>> => stage = "queued"
  /\ mutations # <<>> /\ Head(mutations).op # "revokeIf" => stage \notin {"begun", "skipped"}

\* revokeGrantIfCurrent has begun its change and not finished it.
Undoing(t) ==
  /\ mutations # <<>>
  /\ Head(mutations) = [op |-> "revokeIf", by |-> t]
  /\ stage \in {"begun", "landed", "failed"}

\* The changes of o's connection that are open: a disconnect's own, and the
\* ones of the grant operations.
Owns(t) == t \in Disconnects /\ pc[t] \in {"rejecting", "throwing", "revoking", "telling"}

Holds(t) ==
  t \in Connects \cup Disconnects /\ (pc[t] \in {"granting", "revoking"} \/ Undoing(t))

Own(o) == {t \in Disconnects : site[t] = o /\ Owns(t)}

Inner(o) == {t \in Connects \cup Disconnects : site[t] = o /\ Holds(t)}

CountInv ==
  \A o \in Origins :
    /\ IsFiniteSet(Own(o)) /\ IsFiniteSet(Inner(o))
    /\ connection[o].pending = Cardinality(Own(o)) + Cardinality(Inner(o))

\* The call went when its record could not be written; the request is still in flight.
Abandoned(t) == StorageFails /\ pc[t] \in {"failed", "done"}

PromptInv ==
  /\ prompt # None =>
       /\ prompt \in Tasks /\ verdict[prompt] = "none" /\ InSession(prompt)
       /\ pc[prompt] = "prompted" \/ Abandoned(prompt)
  /\ \A t \in Tasks : verdict[t] # "none" => pc[t] \notin Unasked

----------------------------------------------------------------------------
(* The queue.                                                              *)

\* The first of a sequence, and the others.
LEMMA HeadAndTail ==
  ASSUME NEW S, NEW s \in Seq(S), s # <<>>
  PROVE  /\ Head(s) \in S /\ Head(s) = s[1]
         /\ Tail(s) \in Seq(S)
         /\ Len(s) \in Nat /\ 1 \in 1..Len(s)
         /\ Len(Tail(s)) = Len(s) - 1
         /\ \A i \in 1..Len(Tail(s)) : i + 1 \in 1..Len(s) /\ Tail(s)[i] = s[i + 1]
  <1>1. Len(s) \in Nat /\ Len(s) # 0
    OBVIOUS
  <1>2. Head(s) \in S /\ Head(s) = s[1] /\ 1 \in 1..Len(s)
    BY <1>1
  <1>3. Tail(s) \in Seq(S) /\ Len(Tail(s)) = Len(s) - 1
    BY <1>1
  <1>4. \A i \in 1..Len(Tail(s)) : i + 1 \in 1..Len(s) /\ Tail(s)[i] = s[i + 1]
    BY <1>1, <1>3
  <1> QED BY <1>1, <1>2, <1>3, <1>4

\* A sequence with one more at its end.
LEMMA Appended ==
  ASSUME NEW S, NEW s \in Seq(S), NEW e \in S
  PROVE  /\ Append(s, e) \in Seq(S) /\ Append(s, e) # <<>>
         /\ Len(s) \in Nat /\ Len(Append(s, e)) = Len(s) + 1
         /\ Append(s, e)[Len(s) + 1] = e
         /\ \A i \in 1..Len(s) : Append(s, e)[i] = s[i]
         /\ \A i \in 1..Len(Append(s, e)) : i \in 1..Len(s) \/ i = Len(s) + 1
         /\ Head(Append(s, e)) = IF s = <<>> THEN e ELSE Head(s)
  <1>1. Append(s, e) \in Seq(S) /\ Len(Append(s, e)) = Len(s) + 1 /\ Len(s) \in Nat
    OBVIOUS
  <1>2. Append(s, e)[Len(s) + 1] = e /\ \A i \in 1..Len(s) : Append(s, e)[i] = s[i]
    OBVIOUS
  <1>3. Append(s, e) # <<>> /\ Head(Append(s, e)) = Append(s, e)[1]
    BY <1>1
  <1>4. CASE s = <<>>
    BY <1>1, <1>2, <1>3, <1>4
  <1>5. CASE s # <<>>
    <2>1. Head(s) = s[1] /\ 1 \in 1..Len(s)
      BY <1>5
    <2> QED BY <1>1, <1>2, <1>3, <1>5, <2>1
  <1> QED BY <1>4, <1>5

\* A queue that stays, while those who wait in it do.
LEMMA QueueKept ==
  ASSUME SiteTypeOK, QueueInv, UNCHANGED <<mutations, stage>>,
         \A t \in Connects \cup Disconnects :
           pc[t] \in {"granting", "undoing", "revoking"} => pc'[t] = pc[t]
  PROVE  QueueInv'
  <1>1. \A i \in 1..Len(mutations) : Awaited(mutations[i])'
    BY DEF QueueInv, Awaited
  <1> QED BY <1>1 DEF QueueInv

\* Its head goes a step further.
LEMMA QueueStays ==
  ASSUME QueueInv, UNCHANGED <<mutations, pc>>, mutations # <<>>,
         stage' \in {"begun", "skipped"} => Head(mutations).op = "revokeIf"
  PROVE  QueueInv'
  BY DEF QueueInv, Awaited

\* A call joins it.
LEMMA QueueGrows ==
  ASSUME SiteTypeOK, QueueInv, NEW op, NEW t \in Tasks, Enqueue(op, t),
         [op |-> op, by |-> t] \in Mutation, Awaited([op |-> op, by |-> t])',
         pc[t] \notin {"granting", "undoing", "revoking"},
         \A u \in Tasks : u # t => pc'[u] = pc[u]
  PROVE  QueueInv'
  <1> DEFINE m == [op |-> op, by |-> t]
  <1>1. /\ mutations \in Seq(Mutation) /\ mutations' = Append(mutations, m) /\ stage' = stage
        /\ Len(mutations') = Len(mutations) + 1 /\ mutations'[Len(mutations) + 1] = m
        /\ \A i \in 1..Len(mutations) : mutations'[i] = mutations[i]
        /\ \A i \in 1..Len(mutations') : i \in 1..Len(mutations) \/ i = Len(mutations) + 1
        /\ mutations' # <<>> /\ Head(mutations') = IF mutations = <<>> THEN m ELSE Head(mutations)
    <2> HIDE DEF m
    <2>1. m \in Mutation /\ mutations \in Seq(Mutation)
      BY DEF SiteTypeOK, m
    <2>2. mutations' = Append(mutations, m) /\ stage' = stage
      BY DEF Enqueue, m
    <2> QED BY <2>1, <2>2, Appended
  <1>2. \A i \in 1..Len(mutations) : mutations[i].by \in Tasks /\ mutations[i].by # t
    BY DEF QueueInv, Awaited, Tasks
  <1>3. \A i \in 1..Len(mutations) : Awaited(mutations[i])'
    BY <1>1, <1>2 DEF QueueInv, Awaited
  <1>4. ASSUME NEW i \in 1..Len(mutations') PROVE Awaited(mutations[i])'
    BY <1>1, <1>3
  <1>5. \A i, j \in 1..Len(mutations') : mutations'[i].by = mutations'[j].by => i = j
    BY <1>1, <1>2 DEF QueueInv
  <1>6. Head(mutations').op # "revokeIf" => stage' \notin {"begun", "skipped"}
    BY <1>1 DEF QueueInv
  <1> QED BY <1>1, <1>4, <1>5, <1>6 DEF QueueInv

\* Its head leaves it.
LEMMA QueueShrinks ==
  ASSUME SiteTypeOK, QueueInv, mutations # <<>>, Dequeue,
         \A u \in Tasks : u # Head(mutations).by => pc'[u] = pc[u]
  PROVE  QueueInv'
  <1>1. /\ mutations' = Tail(mutations) /\ stage' = "queued"
        /\ Head(mutations) = mutations[1] /\ 1 \in 1..Len(mutations)
        /\ Len(mutations') = Len(mutations) - 1
        /\ \A i \in 1..Len(mutations') : i + 1 \in 1..Len(mutations) /\ mutations'[i] = mutations[i + 1]
    BY HeadAndTail DEF SiteTypeOK, Dequeue
  <1>2. ASSUME NEW i \in 1..Len(mutations') PROVE Awaited(mutations[i])'
    <2>1. Awaited(mutations[i + 1]) /\ mutations[i + 1].by \in Tasks /\ mutations[i + 1].by # mutations[1].by
      BY <1>1 DEF QueueInv, Awaited, Tasks
    <2> QED BY <1>1, <2>1 DEF Awaited
  <1>3. \A i, j \in 1..Len(mutations') : mutations'[i].by = mutations'[j].by => i = j
    BY <1>1 DEF QueueInv
  <1> QED BY <1>1, <1>2, <1>3 DEF QueueInv

\* The head goes to the end, as another operation of its call.
LEMMA QueueTurns ==
  ASSUME SiteTypeOK, QueueInv, NEW c \in Connects, mutations # <<>>, Head(mutations).by = c,
         mutations' = Append(Tail(mutations), [op |-> "revokeIf", by |-> c]), stage' = "queued",
         pc'[c] = "undoing", \A u \in Tasks : u # c => pc'[u] = pc[u]
  PROVE  QueueInv'
  <1> DEFINE m == [op |-> "revokeIf", by |-> c]
             rest == Tail(mutations)
  <1>0. rest = Tail(mutations) /\ m = [op |-> "revokeIf", by |-> c]
    OBVIOUS
  <1> HIDE DEF m, rest
  <1>m. m.op = "revokeIf" /\ m.by = c
    BY <1>0
  <1>1. /\ Head(mutations) = mutations[1] /\ 1 \in 1..Len(mutations)
        /\ rest \in Seq(Mutation) /\ Len(rest) = Len(mutations) - 1
        /\ \A i \in 1..Len(rest) : i + 1 \in 1..Len(mutations) /\ rest[i] = mutations[i + 1]
    BY <1>0, HeadAndTail DEF SiteTypeOK
  <1>2. m \in Mutation
    BY <1>0 DEF Mutation
  <1>3. /\ Len(mutations') = Len(rest) + 1 /\ mutations'[Len(rest) + 1] = m
        /\ \A i \in 1..Len(rest) : mutations'[i] = rest[i]
        /\ \A i \in 1..Len(mutations') : i \in 1..Len(rest) \/ i = Len(rest) + 1
        /\ mutations' # <<>>
    <2>1. mutations' = Append(rest, m)
      BY <1>0
    <2> QED BY <1>1, <1>2, <2>1, Appended
  <1>4. ASSUME NEW i \in 1..Len(rest)
        PROVE  rest[i].by # c /\ Awaited(mutations[i])'
    <2>1. Awaited(mutations[i + 1]) /\ mutations[i + 1].by \in Tasks /\ mutations[i + 1].by # mutations[1].by
      BY <1>1 DEF QueueInv, Awaited, Tasks
    <2> QED BY <1>1, <1>3, <2>1 DEF Awaited
  <1>5. ASSUME NEW i \in 1..Len(mutations') PROVE Awaited(mutations[i])'
    <2>1. CASE i \in 1..Len(rest)
      BY <1>4, <2>1
    <2>2. CASE i = Len(rest) + 1
      <3>1. mutations'[i] = m
        BY <1>3, <2>2
      <3> QED BY <1>m, <3>1 DEF Awaited
    <2> QED BY <1>3, <2>1, <2>2
  <1>6. \A i, j \in 1..Len(mutations') : mutations'[i].by = mutations'[j].by => i = j
    <2> SUFFICES ASSUME NEW i \in 1..Len(mutations'), NEW j \in 1..Len(mutations'),
                        mutations'[i].by = mutations'[j].by
                 PROVE  i = j
      OBVIOUS
    <2>1. CASE i \in 1..Len(rest) /\ j \in 1..Len(rest)
      BY <1>1, <1>3, <2>1 DEF QueueInv
    <2>2. CASE i = Len(rest) + 1 \/ j = Len(rest) + 1
      <3>1. mutations'[Len(rest) + 1].by = c /\ \A k \in 1..Len(rest) : mutations'[k].by # c
        BY <1>m, <1>3, <1>4
      <3> QED BY <1>3, <2>2, <3>1
    <2> QED BY <1>1, <1>3, <2>1, <2>2
  <1> QED BY <1>3, <1>5, <1>6 DEF QueueInv

\* Every step keeps the queue in order.
LEMMA QueueStep ==
  ASSUME SiteTypeOK, QueueInv, [SiteNext]_siteVars
  PROVE  QueueInv'
  <1> USE SiteAssumption DEF Tasks
  <1>1. CASE UNCHANGED siteVars \/ Lock \/ Unlock \/ UserDecides
    BY <1>1, QueueKept DEF siteVars, sessionVars, promptVars, grantVars, authorityVars, taskVars,
       Lock, Unlock, UserDecides
  <1>2. CASE QueueSteps
    <2>1. CASE RevokeIfReads
      BY <2>1, QueueStays DEF RevokeIfReads, BeginChange, taskVars, authorityVars
    <2>2. CASE MutationLands \/ MutationFails
      BY <2>2, QueueStays DEF MutationLands, MutationFails, MayWrite, taskVars
    <2> QED BY <1>2, <2>1, <2>2 DEF QueueSteps
  <1>3. ASSUME NEW c \in Connects, ConnectSteps(c) PROVE QueueInv'
    <2>1. CASE ConnectPrompt(c) \/ ConnectRefused(c)
      BY <2>1, QueueKept DEF SiteTypeOK, ConnectPrompt, ConnectRefused, Prompts, Goes, Approved, Declined, grantVars
    <2>2. CASE ConnectGrants(c)
      <3>1. pc[c] = "prompted" /\ pc' = [pc EXCEPT ![c] = "granting"] /\ Enqueue("grant", c)
        BY <2>2 DEF ConnectGrants, Approved, Declined, Goes
      <3>2. [op |-> "grant", by |-> c] \in Mutation /\ Awaited([op |-> "grant", by |-> c])'
        BY <3>1 DEF Mutation, Awaited, SiteTypeOK
      <3> QED BY <3>1, <3>2, QueueGrows DEF SiteTypeOK
    <2>3. CASE ConnectGranted(c)
      <3>1. mutations # <<>> /\ Head(mutations) = [op |-> "grant", by |-> c] /\ stage' = "queued"
        BY <2>3 DEF ConnectGranted, Settled
      <3>2. CASE stage = "landed" /\ ~InSession(c)
        BY <2>3, <3>1, <3>2, QueueTurns DEF ConnectGranted, Goes, SiteTypeOK
      <3>3. CASE ~(stage = "landed" /\ ~InSession(c))
        BY <2>3, <3>1, <3>3, QueueShrinks DEF ConnectGranted, Goes, Dequeue, SiteTypeOK
      <3> QED BY <3>2, <3>3
    <2>4. CASE ConnectUndone(c)
      BY <2>4, QueueShrinks DEF ConnectUndone, Settled, Goes, SiteTypeOK
    <2> QED BY <1>3, <2>1, <2>2, <2>3, <2>4 DEF ConnectSteps
  <1>4. ASSUME NEW d \in Disconnects, DisconnectSteps(d) PROVE QueueInv'
    <2>1. CASE DisconnectThrows(d) \/ DisconnectEnds(d)
      BY <2>1, QueueKept DEF SiteTypeOK, DisconnectThrows, DisconnectEnds, Goes, grantVars
    <2>2. CASE DisconnectRevokes(d)
      <3>1. pc[d] = "rejecting" /\ pc' = [pc EXCEPT ![d] = "revoking"] /\ Enqueue("revoke", d)
        BY <2>2 DEF DisconnectRevokes, Goes
      <3>2. [op |-> "revoke", by |-> d] \in Mutation /\ Awaited([op |-> "revoke", by |-> d])'
        BY <3>1 DEF Mutation, Awaited, SiteTypeOK
      <3> QED BY <3>1, <3>2, QueueGrows DEF SiteTypeOK
    <2>3. CASE DisconnectRevoked(d)
      BY <2>3, QueueShrinks DEF DisconnectRevoked, Settled, Goes, SiteTypeOK
    <2> QED BY <1>4, <2>1, <2>2, <2>3 DEF DisconnectSteps
  <1>5. ASSUME NEW s \in Signs, SignSteps(s) PROVE QueueInv'
    BY <1>5, QueueKept DEF SignSteps, SignContext, SignInspected, SignRefused, SignStarts, Prompts, Goes,
       grantVars, SiteTypeOK
  <1>6. ASSUME NEW o \in Origins, NEW t \in Tasks,
               \/ t \in Connects /\ ConnectAsk(t, o)
               \/ t \in Disconnects /\ DisconnectAsk(t, o)
               \/ t \in Signs /\ SignAsk(t, o)
        PROVE  QueueInv'
    BY <1>6, QueueKept DEF ConnectAsk, DisconnectAsk, SignAsk, Asks, Goes, grantVars, SiteTypeOK
  <1>7. CASE WorkerDies
    BY <1>7 DEF WorkerDies, QueueInv
  <1> QED
    BY <1>1, <1>2, <1>3, <1>4, <1>5, <1>6, <1>7 DEF SiteNext, SiteProgress, SiteAsks

----------------------------------------------------------------------------
(* The open changes.                                                       *)

\* A finite set with one more.
LEMMA Plus ==
  ASSUME NEW S, NEW x, x \notin S, IsFiniteSet(S)
  PROVE  /\ IsFiniteSet(S \cup {x})
         /\ Cardinality(S) \in Nat
         /\ Cardinality(S \cup {x}) = Cardinality(S) + 1
  BY FS_AddElement, FS_CardinalityType

\* A finite set with one less.
LEMMA Minus ==
  ASSUME NEW S, NEW x, x \in S, IsFiniteSet(S)
  PROVE  /\ IsFiniteSet(S \ {x})
         /\ Cardinality(S) \in Nat /\ Cardinality(S) >= 1
         /\ Cardinality(S \ {x}) = Cardinality(S) - 1
  <1>1. IsFiniteSet(S \ {x}) /\ Cardinality(S \ {x}) = Cardinality(S) - 1
    BY FS_RemoveElement
  <1>2. Cardinality(S) \in Nat /\ Cardinality(S \ {x}) \in Nat
    BY <1>1, FS_CardinalityType
  <1> QED BY <1>1, <1>2

\* A change that is open is counted.
LEMMA Pending ==
  ASSUME CountInv, NEW o \in Origins
  PROVE  /\ connection[o].pending \in Nat
         /\ Own(o) # {} \/ Inner(o) # {} => connection[o].pending >= 1
         /\ Own(o) # {} /\ Inner(o) # {} => connection[o].pending >= 2
  <1>1. /\ IsFiniteSet(Own(o)) /\ IsFiniteSet(Inner(o))
        /\ connection[o].pending = Cardinality(Own(o)) + Cardinality(Inner(o))
    BY DEF CountInv
  <1>2. Cardinality(Own(o)) \in Nat /\ Cardinality(Inner(o)) \in Nat
    BY <1>1, FS_CardinalityType
  <1>3. /\ Own(o) # {} => Cardinality(Own(o)) >= 1
        /\ Inner(o) # {} => Cardinality(Inner(o)) >= 1
    BY <1>1, Minus
  <1> QED BY <1>1, <1>2, <1>3

\* Where neither the count nor the changes move, it still counts.
LEMMA CountKept ==
  ASSUME CountInv,
         \A o \in Origins : /\ connection'[o].pending = connection[o].pending
                            /\ Own(o)' = Own(o) /\ Inner(o)' = Inner(o)
  PROVE  CountInv'
  BY DEF CountInv

\* A set of calls after a step of one of them.
LEMMA SetAfter ==
  ASSUME NEW S, NEW T, NEW c, IsFiniteSet(S),
         \A t : t # c => (t \in T <=> t \in S)
  PROVE  /\ IsFiniteSet(T) /\ Cardinality(S) \in Nat /\ Cardinality(T) \in Nat
         /\ Cardinality(T) = Cardinality(S) + (IF c \in T THEN 1 ELSE 0) - (IF c \in S THEN 1 ELSE 0)
  <1>0. Cardinality(S) \in Nat
    BY FS_CardinalityType
  <1>1. CASE c \in T /\ c \notin S
    <2>1. T = S \cup {c}
      BY <1>1
    <2> QED BY <1>0, <1>1, <2>1, Plus
  <1>2. CASE c \notin T /\ c \in S
    <2>1. T = S \ {c}
      BY <1>2
    <2> QED BY <1>0, <1>2, <2>1, Minus
  <1>3. CASE c \in T <=> c \in S
    <2>1. T = S
      BY <1>3
    <2> QED BY <1>0, <1>3, <2>1
  <1> QED BY <1>1, <1>2, <1>3

\* One call opens or closes changes of its site.
LEMMA CountOneCall ==
  ASSUME CountInv, NEW o \in Origins, NEW c \in Connects \cup Disconnects,
         site'[c] = o, site[c] = o \/ (~Owns(c) /\ ~Holds(c)),
         \A t \in Connects \cup Disconnects :
           t # c => site'[t] = site[t] /\ (Owns(t)' <=> Owns(t)) /\ (Holds(t)' <=> Holds(t)),
         \A p \in Origins \ {o} : connection'[p].pending = connection[p].pending,
         connection'[o].pending = connection[o].pending
           + (IF Owns(c)' THEN 1 ELSE 0) - (IF Owns(c) THEN 1 ELSE 0)
           + (IF Holds(c)' THEN 1 ELSE 0) - (IF Holds(c) THEN 1 ELSE 0)
  PROVE  CountInv'
  <1>1. ASSUME NEW p \in Origins \ {o}
        PROVE  Own(p)' = Own(p) /\ Inner(p)' = Inner(p)
    <2>1. \A t \in Connects \cup Disconnects :
            (site'[t] = p /\ Owns(t)' <=> site[t] = p /\ Owns(t))
            /\ (site'[t] = p /\ Holds(t)' <=> site[t] = p /\ Holds(t))
      OBVIOUS
    <2> QED BY <2>1 DEF Own, Inner
  <1>2. /\ IsFiniteSet(Own(o)) /\ IsFiniteSet(Inner(o))
        /\ connection[o].pending = Cardinality(Own(o)) + Cardinality(Inner(o))
    BY DEF CountInv
  <1>3. /\ \A t : t # c => (t \in Own(o)' <=> t \in Own(o))
        /\ c \in Own(o)' <=> Owns(c)'
        /\ c \in Own(o) <=> Owns(c)
    BY DEF Own, Owns
  <1>4. /\ \A t : t # c => (t \in Inner(o)' <=> t \in Inner(o))
        /\ c \in Inner(o)' <=> Holds(c)'
        /\ c \in Inner(o) <=> Holds(c)
    BY DEF Inner
  <1>5. /\ IsFiniteSet(Own(o)') /\ Cardinality(Own(o)) \in Nat /\ Cardinality(Own(o)') \in Nat
        /\ Cardinality(Own(o)') = Cardinality(Own(o)) + (IF c \in Own(o)' THEN 1 ELSE 0)
                                                     - (IF c \in Own(o) THEN 1 ELSE 0)
    BY <1>2, <1>3, SetAfter
  <1>6. /\ IsFiniteSet(Inner(o)') /\ Cardinality(Inner(o)) \in Nat /\ Cardinality(Inner(o)') \in Nat
        /\ Cardinality(Inner(o)') = Cardinality(Inner(o)) + (IF c \in Inner(o)' THEN 1 ELSE 0)
                                                         - (IF c \in Inner(o) THEN 1 ELSE 0)
    BY <1>2, <1>4, SetAfter
  <1>7. connection'[o].pending = Cardinality(Own(o)') + Cardinality(Inner(o)')
    BY <1>2, <1>3, <1>4, <1>5, <1>6
  <1> QED BY <1>1, <1>5, <1>6, <1>7 DEF CountInv

\* A step that leaves the queue and the calls that hold a change alone.
LEMMA CountUntouched ==
  ASSUME CountInv, UNCHANGED <<mutations, stage>>,
         \A o \in Origins : connection'[o].pending = connection[o].pending,
         \A t \in Connects \cup Disconnects :
           \/ pc'[t] = pc[t] /\ site'[t] = site[t]
           \/ {pc[t], pc'[t]} \cap {"granting", "revoking", "rejecting", "throwing", "telling"} = {}
                /\ ~Undoing(t)
  PROVE  CountInv'
  <1>1. \A t \in Connects \cup Disconnects : Undoing(t)' <=> Undoing(t)
    BY DEF Undoing
  <1>2. \A t \in Connects \cup Disconnects :
          /\ Owns(t)' <=> Owns(t)
          /\ Holds(t)' <=> Holds(t)
          /\ Owns(t) \/ Holds(t) => site'[t] = site[t]
    BY <1>1 DEF Owns, Holds
  <1>3. \A o \in Origins : Own(o)' = Own(o) /\ Inner(o)' = Inner(o)
    BY <1>2 DEF Own, Inner
  <1> QED BY <1>3, CountKept

\* Who undoes his grant stands at the head of the queue.
LEMMA UndoingIsHead ==
  ASSUME QueueInv, mutations \in Seq(Mutation), NEW t, Undoing(t)
  PROVE  t \in Connects /\ pc[t] = "undoing" /\ Head(mutations).by = t /\ Head(mutations).op = "revokeIf"
  <1>1. mutations # <<>> /\ Head(mutations) = [op |-> "revokeIf", by |-> t]
    BY DEF Undoing
  <1>2. Head(mutations) = mutations[1] /\ 1 \in 1..Len(mutations)
    BY <1>1, HeadAndTail
  <1> QED BY <1>1, <1>2 DEF QueueInv, Awaited

\* A change that begins.
LEMMA Begun ==
  ASSUME SiteTypeOK, NEW o \in Origins, BeginChange(o)
  PROVE  /\ connection' \in [Origins -> [version: Nat, pending: Nat]]
         /\ connection'[o].version = connection[o].version + 1
         /\ connection'[o].pending = connection[o].pending + 1
         /\ \A p \in Origins \ {o} : connection'[p] = connection[p]
         /\ arkade' \subseteq arkade /\ \A t \in arkade' : site[t] # o
  BY DEF SiteTypeOK, BeginChange

\* Changes that end.
LEMMA Ended ==
  ASSUME SiteTypeOK, NEW o \in Origins, NEW n \in Nat, EndChanges(o, n)
  PROVE  /\ connection[o].pending >= n => connection' \in [Origins -> [version: Nat, pending: Nat]]
         /\ connection'[o].pending = connection[o].pending - n
         /\ connection'[o].version = connection[o].version
         /\ \A p \in Origins \ {o} : connection'[p] = connection[p]
  <1>1. connection \in [Origins -> [version: Nat, pending: Nat]]
        /\ connection' = [connection EXCEPT ![o].pending = @ - n]
    BY DEF SiteTypeOK, EndChanges
  <1>2. /\ connection'[o] = [connection[o] EXCEPT !.pending = connection[o].pending - n]
        /\ \A p \in Origins \ {o} : connection'[p] = connection[p]
        /\ connection' = [p \in Origins |-> connection'[p]]
    BY <1>1
  <1>3. /\ connection'[o].pending = connection[o].pending - n
        /\ connection'[o].version = connection[o].version
        /\ connection[o].pending \in Nat /\ connection[o].version \in Nat
    BY <1>1, <1>2
  <1>4. ASSUME connection[o].pending >= n
        PROVE  connection' \in [Origins -> [version: Nat, pending: Nat]]
    <2>1. connection'[o] \in [version: Nat, pending: Nat]
      BY <1>1, <1>2, <1>3, <1>4
    <2> QED BY <1>1, <1>2, <2>1
  <1> QED BY <1>2, <1>3, <1>4

\* Joining the queue makes nobody its head.
LEMMA UndoingEnqueues ==
  ASSUME SiteTypeOK, QueueInv, NEW op, NEW t, Enqueue(op, t), [op |-> op, by |-> t] \in Mutation,
         op # "revokeIf"
  PROVE  \A u : Undoing(u)' <=> Undoing(u)
  <1> DEFINE m == [op |-> op, by |-> t]
  <1>1. /\ m \in Mutation /\ m.op # "revokeIf" /\ mutations \in Seq(Mutation)
        /\ mutations' = Append(mutations, m) /\ stage' = stage
    BY DEF SiteTypeOK, Enqueue
  <1> HIDE DEF m
  <1>2. mutations' # <<>> /\ Head(mutations') = IF mutations = <<>> THEN m ELSE Head(mutations)
    BY <1>1, Appended
  <1> QED BY <1>1, <1>2 DEF Undoing

\* The steps of a connect keep the count.
LEMMA CountConnects ==
  ASSUME SiteTypeOK, QueueInv, CountInv, NEW c \in Connects, ConnectSteps(c)
  PROVE  CountInv'
  <1> USE SiteAssumption DEF Tasks
  <1>o. PICK o \in Origins : o = site[c]
    <2>1. pc[c] # "new"
      BY DEF ConnectSteps, ConnectPrompt, ConnectRefused, ConnectGrants, ConnectGranted, ConnectUndone, Approved, Declined
    <2> QED BY <2>1 DEF SiteTypeOK
  <1>d. c \in Connects \cup Disconnects /\ c \in Tasks /\ ~Owns(c) /\ ~Owns(c)'
    BY DEF Owns
  <1>n. connection[o].pending \in Nat
    BY <1>o DEF SiteTypeOK
  <1>1. CASE ConnectPrompt(c) \/ ConnectRefused(c)
    <2>1. ~Undoing(c)
      BY <1>1, UndoingIsHead DEF ConnectPrompt, ConnectRefused, Approved, Declined, SiteTypeOK
    <2> QED BY <1>1, <2>1, CountUntouched
            DEF ConnectPrompt, ConnectRefused, Approved, Declined, Prompts, Goes, grantVars, authorityVars, SiteTypeOK
  <1>2. CASE ConnectGrants(c)
    <2>1. pc[c] = "prompted" /\ pc' = [pc EXCEPT ![c] = "granting"] /\ site' = site
          /\ Enqueue("grant", c) /\ BeginChange(o)
      BY <1>o, <1>2 DEF ConnectGrants, Approved, Declined, Goes, BeginChange
    <2>2. \A u : Undoing(u)' <=> Undoing(u)
      BY <2>1, UndoingEnqueues DEF Mutation
    <2>3. ~Holds(c) /\ Holds(c)'
      <3>1. ~Undoing(c)
        BY <2>1, UndoingIsHead DEF SiteTypeOK
      <3> QED BY <1>d, <2>1, <3>1 DEF Holds, SiteTypeOK
    <2>4. \A t \in Connects \cup Disconnects :
            t # c => (Owns(t)' <=> Owns(t)) /\ (Holds(t)' <=> Holds(t))
      BY <2>1, <2>2 DEF Owns, Holds, SiteTypeOK
    <2>5. connection'[o].pending = connection[o].pending + 1
          /\ \A p \in Origins \ {o} : connection'[p] = connection[p]
      BY <2>1, Begun
    <2> QED BY <1>o, <1>d, <1>n, <2>1, <2>3, <2>4, <2>5, CountOneCall
  <1>3. CASE ConnectGranted(c) \/ (ConnectUndone(c) /\ stage # "skipped")
    <2>1. /\ pc[c] \in {"granting", "undoing"} /\ site' = site
          /\ \A u \in Tasks : u # c => pc'[u] = pc[u]
          /\ pc'[c] \in {"undoing", "connected", "failed", "thrown"}
          /\ EndChanges(o, 1) /\ stage' = "queued"
          /\ mutations # <<>> /\ Head(mutations).by = c
          /\ pc[c] = "undoing" => Undoing(c)
      <3>1. CASE ConnectGranted(c)
        BY <1>o, <3>1 DEF ConnectGranted, Settled, Goes, EndChanges, SiteTypeOK
      <3>2. CASE ConnectUndone(c) /\ stage # "skipped"
        BY <1>o, <3>2 DEF ConnectUndone, Settled, Dequeue, Goes, EndChanges, Undoing, SiteTypeOK
      <3> QED BY <1>3, <3>1, <3>2
    <2>2. (\A u : ~Undoing(u)') /\ \A u : u # c => ~Undoing(u)
      BY <2>1 DEF Undoing
    <2>3. Holds(c) /\ ~Holds(c)'
      BY <1>d, <2>1, <2>2 DEF Holds
    <2>4. \A t \in Connects \cup Disconnects :
            t # c => (Owns(t)' <=> Owns(t)) /\ (Holds(t)' <=> Holds(t))
      BY <2>1, <2>2 DEF Owns, Holds
    <2>5. connection'[o].pending = connection[o].pending - 1
          /\ \A p \in Origins \ {o} : connection'[p] = connection[p]
      BY <2>1, Ended
    <2> QED BY <1>o, <1>d, <1>n, <2>1, <2>3, <2>4, <2>5, CountOneCall
  <1>4. CASE ConnectUndone(c) /\ stage = "skipped"
    <2>1. pc[c] = "undoing" /\ pc' = [pc EXCEPT ![c] = "failed"] /\ site' = site
          /\ EndChanges(o, 0) /\ stage' = "queued"
      BY <1>o, <1>4 DEF ConnectUndone, Settled, Dequeue, Goes, EndChanges
    <2>2. \A u : ~Undoing(u) /\ ~Undoing(u)'
      BY <1>4, <2>1 DEF Undoing
    <2>3. \A t \in Connects \cup Disconnects : (Owns(t)' <=> Owns(t)) /\ (Holds(t)' <=> Holds(t))
      BY <2>1, <2>2 DEF Owns, Holds, SiteTypeOK
    <2>5. connection'[o].pending = connection[o].pending
          /\ \A p \in Origins \ {o} : connection'[p] = connection[p]
      BY <1>n, <2>1, Ended
    <2> QED BY <1>o, <1>d, <1>n, <2>1, <2>3, <2>5, CountOneCall
  <1> QED BY <1>1, <1>2, <1>3, <1>4 DEF ConnectSteps

\* So do those of a disconnect.
LEMMA CountDisconnects ==
  ASSUME SiteTypeOK, QueueInv, CountInv, NEW d \in Disconnects,
         DisconnectSteps(d) \/ \E o \in Origins : DisconnectAsk(d, o)
  PROVE  CountInv'
  <1> USE SiteAssumption DEF Tasks
  <1>d. d \in Connects \cup Disconnects /\ d \in Tasks
    OBVIOUS
  <1>1. ASSUME NEW o \in Origins, DisconnectAsk(d, o) PROVE CountInv'
    <2>1. PICK to \in {"rejecting", "throwing"} :
            /\ pc[d] = "new" /\ pc' = [pc EXCEPT ![d] = to] /\ site' = [site EXCEPT ![d] = o]
            /\ BeginChange(o) /\ mutations' = mutations /\ stage' = stage
      BY <1>1 DEF DisconnectAsk, Asks, Goes, grantVars
    <2>2. (\A u : Undoing(u)' <=> Undoing(u)) /\ ~Undoing(d)
      <3>1. ~Undoing(d)
        BY <2>1, UndoingIsHead DEF SiteTypeOK
      <3> QED BY <2>1, <3>1 DEF Undoing
    <2>3. ~Owns(d) /\ ~Holds(d) /\ Owns(d)' /\ ~Holds(d)' /\ site'[d] = o
      BY <1>d, <2>1, <2>2 DEF Owns, Holds, SiteTypeOK
    <2>4. \A t \in Connects \cup Disconnects :
            t # d => site'[t] = site[t] /\ (Owns(t)' <=> Owns(t)) /\ (Holds(t)' <=> Holds(t))
      BY <2>1, <2>2 DEF Owns, Holds, SiteTypeOK
    <2>5. connection'[o].pending = connection[o].pending + 1
          /\ \A p \in Origins \ {o} : connection'[p] = connection[p]
      BY <2>1, Begun
    <2>6. connection[o].pending \in Nat
      BY DEF SiteTypeOK
    <2> QED BY <1>d, <2>3, <2>4, <2>5, <2>6, CountOneCall
  <1>2. CASE DisconnectSteps(d)
    <2>o. PICK o \in Origins : o = site[d]
      <3>1. pc[d] # "new"
        BY <1>2 DEF DisconnectSteps, DisconnectRevokes, DisconnectThrows, DisconnectRevoked, DisconnectEnds
      <3> QED BY <3>1 DEF SiteTypeOK
    <2>n. connection[o].pending \in Nat
      BY <2>o DEF SiteTypeOK
    <2>1. CASE DisconnectRevokes(d)
      <3>1. pc[d] = "rejecting" /\ pc' = [pc EXCEPT ![d] = "revoking"] /\ site' = site
            /\ Enqueue("revoke", d) /\ BeginChange(o)
        BY <2>o, <2>1 DEF DisconnectRevokes, Goes, BeginChange
      <3>2. \A u : Undoing(u)' <=> Undoing(u)
        BY <3>1, UndoingEnqueues DEF Mutation
      <3>3. ~Undoing(d)
        BY <3>1, UndoingIsHead DEF SiteTypeOK
      <3>4. Owns(d) /\ ~Holds(d) /\ Owns(d)' /\ Holds(d)'
        BY <1>d, <3>1, <3>3 DEF Owns, Holds, SiteTypeOK
      <3>5. \A t \in Connects \cup Disconnects :
              t # d => (Owns(t)' <=> Owns(t)) /\ (Holds(t)' <=> Holds(t))
        BY <3>1, <3>2 DEF Owns, Holds, SiteTypeOK
      <3>6. connection'[o].pending = connection[o].pending + 1
            /\ \A p \in Origins \ {o} : connection'[p] = connection[p]
        BY <3>1, Begun
      <3> QED BY <1>d, <2>o, <2>n, <3>1, <3>4, <3>5, <3>6, CountOneCall
    <2>2. CASE DisconnectThrows(d) \/ DisconnectEnds(d)
      <3>1. pc[d] \in {"throwing", "telling"} /\ pc' = [pc EXCEPT ![d] = "done"] /\ site' = site
            /\ EndChanges(o, 1) /\ mutations' = mutations /\ stage' = stage
        BY <2>o, <2>2 DEF DisconnectThrows, DisconnectEnds, Goes, EndChanges, grantVars
      <3>2. (\A u : Undoing(u)' <=> Undoing(u)) /\ ~Undoing(d)
        <4>1. ~Undoing(d)
          BY <3>1, UndoingIsHead DEF SiteTypeOK
        <4> QED BY <3>1, <4>1 DEF Undoing
      <3>4. Owns(d) /\ ~Holds(d) /\ ~Owns(d)' /\ ~Holds(d)'
        BY <1>d, <3>1, <3>2 DEF Owns, Holds, SiteTypeOK
      <3>5. \A t \in Connects \cup Disconnects :
              t # d => (Owns(t)' <=> Owns(t)) /\ (Holds(t)' <=> Holds(t))
        BY <3>1, <3>2 DEF Owns, Holds, SiteTypeOK
      <3>6. connection'[o].pending = connection[o].pending - 1
            /\ \A p \in Origins \ {o} : connection'[p] = connection[p]
        BY <3>1, Ended
      <3> QED BY <1>d, <2>o, <2>n, <3>1, <3>4, <3>5, <3>6, CountOneCall
    <2>3. CASE DisconnectRevoked(d)
      <3>1. /\ pc[d] = "revoking" /\ site' = site /\ stage' = "queued"
            /\ mutations # <<>> /\ Head(mutations).op # "revokeIf"
            /\ \/ pc' = [pc EXCEPT ![d] = "telling"] /\ EndChanges(o, 1)
               \/ pc' = [pc EXCEPT ![d] = "done"] /\ EndChanges(o, 2)
        BY <2>o, <2>3 DEF DisconnectRevoked, Settled, Dequeue, Goes, EndChanges
      <3>2. \A u : ~Undoing(u) /\ ~Undoing(u)'
        BY <3>1 DEF Undoing
      <3>4. Owns(d) /\ Holds(d) /\ ~Holds(d)' /\ (Owns(d)' <=> pc'[d] = "telling")
        BY <1>d, <3>1, <3>2 DEF Owns, Holds, SiteTypeOK
      <3>5. \A t \in Connects \cup Disconnects :
              t # d => (Owns(t)' <=> Owns(t)) /\ (Holds(t)' <=> Holds(t))
        BY <3>1, <3>2 DEF Owns, Holds, SiteTypeOK
      <3>6. /\ connection'[o].pending = connection[o].pending - (IF pc'[d] = "telling" THEN 1 ELSE 2)
            /\ \A p \in Origins \ {o} : connection'[p] = connection[p]
        BY <1>d, <3>1, Ended DEF SiteTypeOK
      <3> QED BY <1>d, <2>o, <2>n, <3>1, <3>4, <3>5, <3>6, CountOneCall
    <2> QED BY <1>2, <2>1, <2>2, <2>3 DEF DisconnectSteps
  <1> QED BY <1>1, <1>2

\* So do those of the queue.
LEMMA CountQueue ==
  ASSUME SiteTypeOK, QueueInv, CountInv, QueueSteps
  PROVE  CountInv'
  <1> USE SiteAssumption DEF Tasks
  <1>0. UNCHANGED <<pc, site, mutations>> /\ mutations # <<>>
    BY DEF QueueSteps, RevokeIfReads, MutationLands, MutationFails, MayWrite, taskVars
  <1>h. /\ Head(mutations) \in Mutation /\ Awaited(Head(mutations))
    BY <1>0, HeadAndTail DEF QueueInv, SiteTypeOK
  <1>1. CASE connection' = connection /\ \A u : Undoing(u)' <=> Undoing(u)
    <2>1. \A o \in Origins : Own(o)' = Own(o) /\ Inner(o)' = Inner(o)
      BY <1>0, <1>1 DEF Own, Inner, Owns, Holds
    <2> QED BY <1>1, <2>1, CountKept
  <1>2. CASE MutationLands \/ MutationFails
    <2>1. \A u : Undoing(u)' <=> Undoing(u)
      BY <1>0, <1>2 DEF MutationLands, MutationFails, MayWrite, Undoing
    <2> QED BY <1>1, <1>2, <2>1 DEF MutationLands, MutationFails, authorityVars
  <1>3. CASE RevokeIfReads
    <2> DEFINE h == Head(mutations).by
    <2>1. PICK c \in Connects, o \in Origins :
            c = h /\ pc[c] = "undoing" /\ site[c] = o /\ Head(mutations) = [op |-> "revokeIf", by |-> c]
      BY <1>3, <1>h DEF RevokeIfReads, Awaited, Mutation, SiteTypeOK
    <2>2. CASE grants[o] = c
      <3>1. stage = "queued" /\ stage' = "begun" /\ BeginChange(o)
        BY <1>3, <2>1, <2>2 DEF RevokeIfReads, BeginChange
      <3>2. /\ \A u : ~Undoing(u)
            /\ \A u : Undoing(u)' <=> u = c
        BY <1>0, <2>1, <3>1 DEF Undoing
      <3>3. ~Owns(c) /\ ~Holds(c) /\ ~Owns(c)' /\ Holds(c)'
        BY <1>0, <2>1, <3>2 DEF Owns, Holds
      <3>4. \A t \in Connects \cup Disconnects :
              t # c => (Owns(t)' <=> Owns(t)) /\ (Holds(t)' <=> Holds(t))
        BY <1>0, <3>2 DEF Owns, Holds
      <3>5. /\ connection'[o].pending = connection[o].pending + 1
            /\ \A p \in Origins \ {o} : connection'[p] = connection[p]
            /\ connection[o].pending \in Nat
        BY <3>1, Begun DEF SiteTypeOK
      <3> QED BY <1>0, <2>1, <3>3, <3>4, <3>5, CountOneCall
    <2>3. CASE grants[o] # c
      <3>1. stage = "queued" /\ stage' = "skipped" /\ connection' = connection
        BY <1>3, <2>1, <2>3 DEF RevokeIfReads, authorityVars
      <3>2. \A u : ~Undoing(u) /\ ~Undoing(u)'
        BY <3>1 DEF Undoing
      <3> QED BY <1>1, <3>1, <3>2
    <2> QED BY <2>2, <2>3
  <1> QED BY <1>2, <1>3 DEF QueueSteps

\* Every step keeps the count of the open changes.
LEMMA CountStep ==
  ASSUME SiteTypeOK, QueueInv, CountInv, [SiteNext]_siteVars
  PROVE  CountInv'
  <1> USE SiteAssumption DEF Tasks
  <1>1. CASE UNCHANGED siteVars \/ Lock \/ Unlock \/ UserDecides
    BY <1>1, CountUntouched DEF siteVars, sessionVars, promptVars, grantVars, authorityVars, taskVars,
       Lock, Unlock, UserDecides
  <1>2. ASSUME NEW s \in Signs, SignSteps(s) PROVE CountInv'
    BY <1>2, CountUntouched DEF SignSteps, SignContext, SignInspected, SignRefused, SignStarts, Prompts, Goes,
       grantVars, authorityVars, SiteTypeOK
  <1>3. ASSUME NEW o \in Origins, NEW t \in Tasks,
               ConnectAsk(t, o) \/ SignAsk(t, o)
        PROVE  CountInv'
    <2>1. /\ pc[t] = "new" /\ pc'[t] \in {"checked", "done"} /\ connection' = connection
          /\ mutations' = mutations /\ stage' = stage
          /\ \A u \in Tasks : u # t => pc'[u] = pc[u] /\ site'[u] = site[u]
      BY <1>3 DEF ConnectAsk, SignAsk, Asks, Goes, grantVars, authorityVars, SiteTypeOK
    <2>2. ~Undoing(t)
      BY <2>1, UndoingIsHead DEF SiteTypeOK
    <2> QED BY <2>1, <2>2, CountUntouched
  <1>4. CASE WorkerDies
    <2>1. \A o \in Origins : Own(o)' = {} /\ Inner(o)' = {} /\ connection'[o].pending = 0
      BY <1>4 DEF WorkerDies, Own, Inner, Owns, Holds, Undoing, Over
    <2>2. IsFiniteSet({}) /\ Cardinality({}) = 0
      BY FS_EmptySet
    <2>3. \A o \in Origins : /\ IsFiniteSet(Own(o)') /\ IsFiniteSet(Inner(o)')
                             /\ Cardinality(Own(o)') = 0 /\ Cardinality(Inner(o)') = 0
      BY <2>1, <2>2
    <2> QED BY <2>1, <2>3 DEF CountInv
  <1>5. CASE SiteAsks
    <2>1. ASSUME NEW o \in Origins, NEW c \in Connects, ConnectAsk(c, o) PROVE CountInv'
      BY <1>3, <2>1
    <2>2. ASSUME NEW o \in Origins, NEW s \in Signs, SignAsk(s, o) PROVE CountInv'
      BY <1>3, <2>2
    <2> QED BY <1>5, <2>1, <2>2, CountDisconnects DEF SiteAsks
  <1>6. CASE SiteProgress
    BY <1>1, <1>2, <1>6, CountConnects, CountDisconnects, CountQueue DEF SiteProgress
  <1> QED BY <1>1, <1>4, <1>5, <1>6 DEF SiteNext

----------------------------------------------------------------------------
(* Types.                                                                  *)

\* The steps of a connect keep the types.
LEMMA TypeConnects ==
  ASSUME SiteTypeOK, QueueInv, CountInv, NEW c \in Connects, ConnectSteps(c)
  PROVE  SiteTypeOK'
  <1> USE SiteAssumption DEF Tasks
  <1>o. PICK o \in Origins : o = site[c] /\ pc[c] # "new"
    <2>1. pc[c] # "new"
      BY DEF ConnectSteps, ConnectPrompt, ConnectRefused, ConnectGrants, ConnectGranted, ConnectUndone, Approved, Declined
    <2> QED BY <2>1 DEF SiteTypeOK
  <1>1. CASE ConnectPrompt(c)
    BY <1>o, <1>1 DEF SiteTypeOK, ConnectPrompt, Prompts, Goes, SitePC, sessionVars, grantVars, authorityVars
  <1>2. CASE ConnectRefused(c)
    BY <1>o, <1>2 DEF SiteTypeOK, ConnectRefused, Goes, SitePC, sessionVars, promptVars, grantVars, authorityVars
  <1>3. CASE ConnectGrants(c)
    <2>1. /\ BeginChange(o) /\ Goes(c, "granting") /\ site' = site /\ bound' = bound
          /\ UNCHANGED <<sessionVars, promptVars, grants, stage>>
          /\ mutations' = Append(mutations, [op |-> "grant", by |-> c])
      BY <1>o, <1>3 DEF ConnectGrants, BeginChange, Enqueue
    <2>2. connection' \in [Origins -> [version: Nat, pending: Nat]] /\ arkade' \in SUBSET Transactions
      BY <2>1, Begun DEF SiteTypeOK
    <2>3. mutations' \in Seq(Mutation)
      BY <2>1 DEF SiteTypeOK, Mutation
    <2> QED BY <1>o, <2>1, <2>2, <2>3 DEF SiteTypeOK, Goes, SitePC, sessionVars, promptVars
  <1>4. CASE ConnectGranted(c) \/ ConnectUndone(c)
    <2>1. PICK n \in {0, 1} :
            /\ EndChanges(o, n) /\ stage' = "queued" /\ UNCHANGED <<sessionVars, promptVars, grants, arkade, site, bound>>
            /\ mutations # <<>>
            /\ mutations' \in {Tail(mutations), Append(Tail(mutations), [op |-> "revokeIf", by |-> c])}
            /\ n = 1 => pc[c] = "granting" \/ Undoing(c)
      <3>1. CASE ConnectGranted(c)
        BY <1>o, <3>1 DEF ConnectGranted, Settled, EndChanges
      <3>2. CASE ConnectUndone(c)
        <4>1. /\ EndChanges(o, IF stage = "skipped" THEN 0 ELSE 1) /\ stage' = "queued"
              /\ UNCHANGED <<sessionVars, promptVars, grants, arkade, site, bound>>
              /\ mutations # <<>> /\ mutations' = Tail(mutations)
              /\ stage = "skipped" \/ Undoing(c)
          BY <1>o, <3>2 DEF ConnectUndone, Settled, EndChanges, Dequeue, Undoing
        <4>2. CASE stage = "skipped"
          BY <4>1, <4>2
        <4>3. CASE stage # "skipped"
          BY <4>1, <4>3
        <4> QED BY <4>2, <4>3
      <3> QED BY <1>4, <3>1, <3>2
    <2>2. pc' \in [Tasks -> SitePC] /\ \A u \in Tasks : pc'[u] # "new" => pc[u] # "new"
      <3>1. \E to \in {"undoing", "connected", "failed", "thrown"} : Goes(c, to)
        BY <1>4 DEF ConnectGranted, ConnectUndone, Goes
      <3> QED BY <1>o, <3>1 DEF Goes, SitePC, SiteTypeOK
    <2>3. n = 1 => c \in Inner(o)
      BY <1>o, <2>1 DEF Inner, Holds
    <2>4. connection[o].pending >= n
      BY <2>3, Pending
    <2>5. connection' \in [Origins -> [version: Nat, pending: Nat]]
      BY <2>1, <2>4, Ended
    <2>6. mutations' \in Seq(Mutation)
      <3>1. Tail(mutations) \in Seq(Mutation) /\ [op |-> "revokeIf", by |-> c] \in Mutation
        BY <2>1, HeadAndTail DEF SiteTypeOK, Mutation
      <3>2. Append(Tail(mutations), [op |-> "revokeIf", by |-> c]) \in Seq(Mutation)
        BY <3>1
      <3>3. mutations' \in {Tail(mutations), Append(Tail(mutations), [op |-> "revokeIf", by |-> c])}
        BY <2>1
      <3> QED BY <3>1, <3>2, <3>3
    <2> QED BY <2>1, <2>2, <2>5, <2>6 DEF SiteTypeOK, sessionVars, promptVars
  <1> QED BY <1>1, <1>2, <1>3, <1>4 DEF ConnectSteps

\* A prompt that is refused is typed.
LEMMA RefusedTypes ==
  ASSUME SiteTypeOK, NEW theirs \in SUBSET Tasks, RefusePrompt(theirs)
  PROVE  prompt' \in Tasks \cup {None} /\ verdict' \in [Tasks -> {"none", "approved", "refused", "lost"}]
  BY DEF SiteTypeOK, RefusePrompt, EndPrompt, promptVars

\* The steps of a disconnect keep the types.
LEMMA TypeDisconnects ==
  ASSUME SiteTypeOK, QueueInv, CountInv, NEW d \in Disconnects,
         DisconnectSteps(d) \/ \E o \in Origins : DisconnectAsk(d, o)
  PROVE  SiteTypeOK'
  <1> USE SiteAssumption DEF Tasks
  <1>1. ASSUME NEW o \in Origins, DisconnectAsk(d, o) PROVE SiteTypeOK'
    <2>1. connection' \in [Origins -> [version: Nat, pending: Nat]] /\ arkade' \in SUBSET Transactions
      BY <1>1, Begun DEF DisconnectAsk, SiteTypeOK
    <2>2. prompt' \in Tasks \cup {None} /\ verdict' \in [Tasks -> {"none", "approved", "refused", "lost"}]
      <3>1. PromptsOf(o) \in SUBSET Tasks
        BY DEF PromptsOf
      <3>2. CASE RefusePrompt(PromptsOf(o))
        BY <3>1, <3>2, RefusedTypes
      <3>3. CASE EndPrompt("lost")
        BY <3>3 DEF EndPrompt, SiteTypeOK
      <3>4. RefusePrompt(PromptsOf(o)) \/ EndPrompt("lost")
        BY <1>1 DEF DisconnectAsk
      <3> QED BY <3>2, <3>3, <3>4
    <2>3. PICK to \in {"rejecting", "throwing"} : pc' = [pc EXCEPT ![d] = to] /\ site' = [site EXCEPT ![d] = o]
      BY <1>1 DEF DisconnectAsk, Asks, Goes
    <2>4. UNCHANGED <<sessionVars, grantVars, bound>>
      BY <1>1 DEF DisconnectAsk
    <2> QED BY <2>1, <2>2, <2>3, <2>4 DEF SiteTypeOK, SitePC, sessionVars, grantVars
  <1>2. CASE DisconnectSteps(d)
    <2>o. PICK o \in Origins : o = site[d] /\ pc[d] # "new"
      <3>1. pc[d] # "new"
        BY <1>2 DEF DisconnectSteps, DisconnectRevokes, DisconnectThrows, DisconnectRevoked, DisconnectEnds
      <3> QED BY <3>1 DEF SiteTypeOK
    <2>1. CASE DisconnectRevokes(d)
      <3>1. /\ BeginChange(o) /\ Goes(d, "revoking") /\ site' = site /\ bound' = bound
            /\ UNCHANGED <<sessionVars, promptVars, grants, stage>>
            /\ mutations' = Append(mutations, [op |-> "revoke", by |-> d])
        BY <2>o, <2>1 DEF DisconnectRevokes, BeginChange, Enqueue
      <3>2. connection' \in [Origins -> [version: Nat, pending: Nat]] /\ arkade' \in SUBSET Transactions
        BY <3>1, Begun DEF SiteTypeOK
      <3>3. mutations' \in Seq(Mutation)
        BY <3>1 DEF SiteTypeOK, Mutation
      <3> QED BY <2>o, <3>1, <3>2, <3>3 DEF SiteTypeOK, Goes, SitePC, sessionVars, promptVars
    <2>2. CASE DisconnectThrows(d) \/ DisconnectEnds(d) \/ DisconnectRevoked(d)
      <3>1. PICK n \in {1, 2} :
              /\ EndChanges(o, n) /\ UNCHANGED <<sessionVars, promptVars, grants, arkade, site, bound>>
              /\ \/ UNCHANGED <<mutations, stage>>
                 \/ mutations # <<>> /\ mutations' = Tail(mutations) /\ stage' = "queued"
              /\ (pc[d] \in {"throwing", "telling"} /\ n = 1) \/ pc[d] = "revoking"
        <4>1. CASE DisconnectThrows(d) \/ DisconnectEnds(d)
          BY <2>o, <4>1 DEF DisconnectThrows, DisconnectEnds, EndChanges, grantVars
        <4>2. CASE DisconnectRevoked(d)
          <5>1. /\ UNCHANGED <<sessionVars, promptVars, grants, arkade, site, bound>>
                /\ mutations # <<>> /\ mutations' = Tail(mutations) /\ stage' = "queued"
                /\ pc[d] = "revoking"
                /\ EndChanges(o, 1) \/ EndChanges(o, 2)
            BY <2>o, <4>2 DEF DisconnectRevoked, Settled, Dequeue, EndChanges
          <5> QED BY <5>1
        <4> QED BY <2>2, <4>1, <4>2
      <3>2. pc' \in [Tasks -> SitePC] /\ \A u \in Tasks : pc'[u] # "new" => pc[u] # "new"
        <4>1. PICK to \in {"done", "telling"} : pc' = [pc EXCEPT ![d] = to]
          BY <2>2 DEF DisconnectThrows, DisconnectEnds, DisconnectRevoked, Goes
        <4> QED BY <2>o, <4>1 DEF SitePC, SiteTypeOK
      <3>3. /\ d \in Own(o)
            /\ n = 2 => d \in Inner(o)
        BY <2>o, <3>1 DEF Own, Owns, Inner, Holds
      <3>4. connection[o].pending >= n
        BY <3>3, Pending
      <3>5. connection' \in [Origins -> [version: Nat, pending: Nat]]
        BY <3>1, <3>4, Ended
      <3>6. mutations' \in Seq(Mutation)
        <4>1. mutations \in Seq(Mutation) /\ (mutations # <<>> => Tail(mutations) \in Seq(Mutation))
          BY HeadAndTail DEF SiteTypeOK
        <4>2. mutations' = mutations \/ (mutations # <<>> /\ mutations' = Tail(mutations))
          BY <3>1
        <4> QED BY <4>1, <4>2
      <3> QED BY <3>1, <3>2, <3>5, <3>6 DEF SiteTypeOK, sessionVars, promptVars
    <2> QED BY <1>2, <2>1, <2>2 DEF DisconnectSteps
  <1> QED BY <1>1, <1>2

\* Every step keeps the types.
LEMMA TypeStep ==
  ASSUME SiteTypeOK, QueueInv, CountInv, [SiteNext]_siteVars
  PROVE  SiteTypeOK'
  <1> USE SiteAssumption DEF Tasks
  <1>1. CASE UNCHANGED siteVars
    BY <1>1 DEF SiteTypeOK, siteVars, sessionVars, promptVars, grantVars, authorityVars, taskVars
  <1>2. CASE Lock
    <2>1. prompt' \in Tasks \cup {None} /\ verdict' \in [Tasks -> {"none", "approved", "refused", "lost"}]
      BY <1>2, RefusedTypes DEF Lock
    <2> QED BY <1>2, <2>1 DEF Lock, SiteTypeOK, grantVars, taskVars
  <1>3. CASE Unlock
    BY <1>3 DEF Unlock, SiteTypeOK, promptVars, grantVars, taskVars
  <1>4. CASE UserDecides
    BY <1>4 DEF UserDecides, EndPrompt, SiteTypeOK, sessionVars, grantVars, authorityVars, taskVars
  <1>5. CASE QueueSteps
    <2>1. CASE RevokeIfReads
      <3>1. Head(mutations) \in Mutation /\ Awaited(Head(mutations))
        BY <2>1, HeadAndTail DEF RevokeIfReads, SiteTypeOK, QueueInv
      <3>2. PICK o \in Origins : o = site[Head(mutations).by]
        BY <3>1 DEF Awaited, SiteTypeOK
      <3>3. connection' \in [Origins -> [version: Nat, pending: Nat]] /\ arkade' \in SUBSET Transactions
        <4>1. BeginChange(o) \/ UNCHANGED authorityVars
          BY <2>1, <3>2 DEF RevokeIfReads, BeginChange
        <4> QED BY <4>1, Begun DEF SiteTypeOK, authorityVars
      <3> QED BY <2>1, <3>3 DEF RevokeIfReads, SiteTypeOK, sessionVars, promptVars, taskVars
    <2>2. CASE MutationLands
      <3>1. Head(mutations) \in Mutation /\ Awaited(Head(mutations))
        BY <2>2, HeadAndTail DEF MutationLands, MayWrite, SiteTypeOK, QueueInv
      <3>2. grants' \in [Origins -> Connects \cup {None}]
        BY <2>2, <3>1 DEF MutationLands, Writes, Awaited, SiteTypeOK
      <3> QED BY <2>2, <3>2 DEF MutationLands, SiteTypeOK, sessionVars, promptVars, authorityVars, taskVars
    <2>3. CASE MutationFails
      BY <2>3 DEF MutationFails, SiteTypeOK, sessionVars, promptVars, authorityVars, taskVars
    <2> QED BY <1>5, <2>1, <2>2, <2>3 DEF QueueSteps
  <1>6. ASSUME NEW s \in Signs, SignSteps(s) PROVE SiteTypeOK'
    <2>1. /\ s \in Tasks /\ pc[s] # "new" /\ UNCHANGED <<sessionVars, grantVars, authorityVars, site>>
          /\ \E to \in {"inspecting", "prompted", "signed", "done"} : Goes(s, to)
      BY <1>6 DEF SignSteps, SignContext, SignInspected, SignRefused, SignStarts, Prompts,
         Approved, Declined, Tasks
    <2>2. pc' \in [Tasks -> SitePC] /\ \A t \in Tasks : pc'[t] # "new" => site[t] \in Origins
      BY <2>1 DEF Goes, SiteTypeOK, SitePC
    <2>3. bound' \in [Tasks -> Nat]
      <3>1. bound' = [bound EXCEPT ![s] = live] \/ UNCHANGED bound
        BY <1>6 DEF SignSteps, SignContext, SignInspected, SignRefused, SignStarts
      <3>2. bound \in [Tasks -> Nat] /\ live \in Nat
        BY DEF SiteTypeOK
      <3> QED BY <3>1, <3>2
    <2>4. prompt' \in Tasks \cup {None} /\ verdict' \in [Tasks -> {"none", "approved", "refused", "lost"}]
      BY <1>6, <2>1 DEF SignSteps, SignContext, SignInspected, SignRefused, SignStarts, Prompts,
         SiteTypeOK, promptVars
    <2> QED BY <2>1, <2>2, <2>3, <2>4 DEF SiteTypeOK, sessionVars, grantVars, authorityVars
  <1>7. CASE SiteAsks
    <2>1. ASSUME NEW o \in Origins, NEW c \in Connects, ConnectAsk(c, o) PROVE SiteTypeOK'
      BY <2>1 DEF ConnectAsk, Asks, Goes, SiteTypeOK, SitePC, sessionVars, promptVars, grantVars, authorityVars
    <2>2. ASSUME NEW o \in Origins, NEW s \in Signs, SignAsk(s, o) PROVE SiteTypeOK'
      BY <2>2 DEF SignAsk, Asks, Goes, SiteTypeOK, SitePC, sessionVars, promptVars, grantVars, authorityVars
    <2> QED BY <1>7, <2>1, <2>2, TypeDisconnects DEF SiteAsks
  <1>8. CASE WorkerDies
    <2>1. <<>> \in Seq(Mutation)
      OBVIOUS
    <2> QED BY <1>8, <2>1 DEF WorkerDies, SiteTypeOK, SitePC, Over
  <1>9. CASE SiteProgress
    BY <1>4, <1>5, <1>6, <1>9, TypeConnects, TypeDisconnects DEF SiteProgress
  <1> QED BY <1>1, <1>2, <1>3, <1>7, <1>8, <1>9 DEF SiteNext

----------------------------------------------------------------------------
(* The prompt.                                                             *)

\* One call moves, and it is not the one in flight, or the request is left there.
LEMMA PromptKept ==
  ASSUME SiteTypeOK, PromptInv, NEW t \in Tasks, UNCHANGED <<promptVars, live>>,
         t # prompt \/ (Abandoned(t)' /\ bound'[t] = bound[t]),
         \A u \in Tasks : u # t => pc'[u] = pc[u] /\ bound'[u] = bound[u],
         pc'[t] \in Unasked => pc[t] \in Unasked
  PROVE  PromptInv'
  <1>1. \A u \in Tasks : verdict'[u] # "none" => pc'[u] \notin Unasked
    BY DEF PromptInv, promptVars
  <1>2. CASE prompt # t
    BY <1>1, <1>2 DEF PromptInv, Abandoned, InSession, promptVars
  <1>3. CASE prompt = t
    BY <1>1, <1>3 DEF PromptInv, InSession, promptVars
  <1> QED BY <1>2, <1>3

\* One call prompts, in the session it has captured.
LEMMA PromptShown ==
  ASSUME SiteTypeOK, PromptInv, NEW t \in Tasks, Prompts(t), pc[t] \in Unasked, InSession(t)',
         \A u \in Tasks : u # t => bound'[u] = bound[u], live' = live
  PROVE  PromptInv'
  BY SiteAssumption DEF SiteTypeOK, PromptInv, Prompts, Goes, InSession, Unasked, Tasks

\* The request in flight ends.
LEMMA PromptEnded ==
  ASSUME SiteTypeOK, PromptInv, NEW v, EndPrompt(v),
         prompt \in Tasks => pc'[prompt] = pc[prompt],
         \A u \in Tasks : pc'[u] \in Unasked => pc[u] \in Unasked
  PROVE  PromptInv'
  <1>1. prompt' = None /\ verdict' = [verdict EXCEPT ![prompt] = v]
    BY DEF EndPrompt
  <1>2. ASSUME NEW u \in Tasks, verdict'[u] # "none"
        PROVE  pc'[u] \notin Unasked
    <2>1. CASE u = prompt
      <3>1. prompt # None
        BY <2>1, SiteAssumption DEF Tasks
      <3> QED BY <2>1, <3>1 DEF PromptInv, Abandoned, Unasked
    <2>2. CASE u # prompt
      BY <1>1, <1>2, <2>2 DEF SiteTypeOK, PromptInv
    <2> QED BY <2>1, <2>2
  <1> QED BY <1>1, <1>2 DEF PromptInv

\* The request in flight is refused, if it is theirs, and the session left alone.
LEMMA PromptRefused ==
  ASSUME SiteTypeOK, PromptInv, NEW theirs, RefusePrompt(theirs), UNCHANGED <<live, bound>>,
         prompt \in Tasks => pc'[prompt] = pc[prompt],
         \A u \in Tasks : pc'[u] \in Unasked => pc[u] \in Unasked
  PROVE  PromptInv'
  <1>1. CASE prompt \in theirs
    BY <1>1, PromptEnded DEF RefusePrompt
  <1>2. CASE prompt \notin theirs
    BY <1>2 DEF RefusePrompt, promptVars, PromptInv, Abandoned, InSession
  <1> QED BY <1>1, <1>2

\* Every step keeps the prompt with its call and its session.
LEMMA PromptStep ==
  ASSUME SiteTypeOK, PromptInv, [SiteNext]_siteVars
  PROVE  PromptInv'
  <1> USE SiteAssumption DEF Tasks
  <1>1. CASE UNCHANGED siteVars \/ QueueSteps
    BY <1>1 DEF PromptInv, Abandoned, InSession, siteVars, sessionVars, promptVars, taskVars,
       QueueSteps, RevokeIfReads, MutationLands, MutationFails
  <1>2. CASE Lock
    <2>1. CASE prompt \in Tasks
      BY <1>2, <2>1, PromptEnded DEF Lock, RefusePrompt, taskVars
    <2>2. CASE prompt \notin Tasks
      <3>1. prompt = None /\ prompt' = None /\ verdict' = verdict /\ pc' = pc
        BY <1>2, <2>2 DEF Lock, RefusePrompt, promptVars, taskVars, PromptInv
      <3> QED BY <3>1 DEF PromptInv
    <2> QED BY <2>1, <2>2
  <1>3. CASE Unlock
    BY <1>3 DEF Unlock, PromptInv, Abandoned, InSession, promptVars, taskVars
  <1>4. CASE UserDecides
    BY <1>4, PromptEnded DEF UserDecides, taskVars
  <1>5. CASE WorkerDies
    BY <1>5 DEF WorkerDies, PromptInv, Unasked, Over, SiteTypeOK
  <1>6. ASSUME NEW c \in Connects, ConnectSteps(c) PROVE PromptInv'
    <2>1. CASE ConnectPrompt(c)
      BY <2>1, PromptShown DEF ConnectPrompt, InSession, SiteTypeOK, sessionVars, Unasked
    <2>2. CASE ConnectRefused(c) \/ ConnectGrants(c) \/ ConnectGranted(c) \/ ConnectUndone(c)
      <3>1. c # prompt \/ (StorageFails /\ Goes(c, "failed") /\ bound' = bound)
        BY <2>2 DEF ConnectRefused, ConnectGrants, ConnectGranted, ConnectUndone, Approved, Declined, PromptInv,
           Abandoned
      <3>2. \E to \in SitePC \ Unasked : Goes(c, to)
        BY <2>2 DEF ConnectRefused, ConnectGrants, ConnectGranted, ConnectUndone, SitePC, Unasked, Goes
      <3>3. UNCHANGED <<promptVars, live, bound>>
        BY <2>2 DEF ConnectRefused, ConnectGrants, ConnectGranted, ConnectUndone, sessionVars, promptVars
      <3> QED BY <3>1, <3>2, <3>3, PromptKept DEF Goes, SiteTypeOK, Abandoned
    <2> QED BY <1>6, <2>1, <2>2 DEF ConnectSteps
  <1>7. ASSUME NEW d \in Disconnects, DisconnectSteps(d) PROVE PromptInv'
    <2>1. d # prompt
      BY <1>7 DEF DisconnectSteps, DisconnectRevokes, DisconnectThrows, DisconnectRevoked, DisconnectEnds, PromptInv,
         Abandoned
    <2>2. \E to \in SitePC \ Unasked : Goes(d, to)
      BY <1>7 DEF DisconnectSteps, DisconnectRevokes, DisconnectThrows, DisconnectRevoked, DisconnectEnds,
         SitePC, Unasked, Goes
    <2>3. UNCHANGED <<promptVars, live, bound>>
      BY <1>7 DEF DisconnectSteps, DisconnectRevokes, DisconnectThrows, DisconnectRevoked, DisconnectEnds,
         sessionVars, promptVars
    <2> QED BY <2>1, <2>2, <2>3, PromptKept DEF Goes, SiteTypeOK
  <1>8. ASSUME NEW s \in Signs, SignSteps(s) PROVE PromptInv'
    <2>1. CASE SignContext(s) /\ Prompts(s)
      BY <2>1, PromptShown DEF SignContext, InSession, SiteTypeOK, sessionVars, Unasked
    <2>2. CASE SignInspected(s)
      BY <2>2, PromptShown DEF SignInspected, InSession, SiteTypeOK, sessionVars, Unasked
    <2>3. CASE SignContext(s) /\ Goes(s, "inspecting") /\ UNCHANGED promptVars
      <3>1. s # prompt /\ pc[s] \in Unasked
        BY <2>3 DEF SignContext, PromptInv, Abandoned, Unasked
      <3> QED BY <2>3, <3>1, PromptKept DEF SignContext, Goes, SiteTypeOK, sessionVars
    <2>4. CASE SignRefused(s) \/ SignStarts(s)
      <3>1. s # prompt \/ (StorageFails /\ Goes(s, "done") /\ bound' = bound)
        BY <2>4 DEF SignRefused, SignStarts, Approved, Declined, PromptInv, Abandoned
      <3>2. \E to \in SitePC \ Unasked : Goes(s, to)
        BY <2>4 DEF SignRefused, SignStarts, SitePC, Unasked
      <3>3. UNCHANGED <<promptVars, live, bound>>
        BY <2>4 DEF SignRefused, SignStarts, sessionVars, promptVars
      <3> QED BY <3>1, <3>2, <3>3, PromptKept DEF Goes, SiteTypeOK, Abandoned
    <2> QED BY <1>8, <2>1, <2>2, <2>3, <2>4 DEF SignSteps, SignContext
  <1>9. ASSUME NEW o \in Origins, NEW t \in Tasks, ConnectAsk(t, o) \/ SignAsk(t, o)
        PROVE  PromptInv'
    <2>1. /\ pc[t] = "new" /\ t # prompt /\ pc[t] \in Unasked
          /\ UNCHANGED <<promptVars, live, bound>>
          /\ \A u \in Tasks : u # t => pc'[u] = pc[u]
      BY <1>9 DEF ConnectAsk, SignAsk, Asks, Goes, PromptInv, Abandoned, Unasked, SiteTypeOK, sessionVars
    <2> QED BY <2>1, PromptKept
  <1>10. ASSUME NEW o \in Origins, NEW d \in Disconnects, DisconnectAsk(d, o) PROVE PromptInv'
    <2>1. PICK to \in {"rejecting", "throwing"} :
            /\ pc[d] = "new" /\ pc' = [pc EXCEPT ![d] = to] /\ UNCHANGED <<live, bound>>
            /\ RefusePrompt(PromptsOf(o)) \/ EndPrompt("lost")
      BY <1>10 DEF DisconnectAsk, Asks, Goes, sessionVars
    <2>2. prompt \in Tasks => prompt # d
      BY <2>1, SiteAssumption DEF PromptInv, Abandoned
    <2>3. /\ prompt \in Tasks => pc'[prompt] = pc[prompt]
          /\ \A u \in Tasks : pc'[u] \in Unasked => pc[u] \in Unasked
      BY <2>1, <2>2 DEF SiteTypeOK, Unasked
    <2>4. CASE RefusePrompt(PromptsOf(o))
      BY <2>1, <2>3, <2>4, PromptRefused
    <2>5. CASE EndPrompt("lost")
      BY <2>1, <2>3, <2>5, PromptEnded
    <2> QED BY <2>1, <2>4, <2>5
  <1>11. CASE SiteAsks
    <2>1. ASSUME NEW o \in Origins, NEW c \in Connects, ConnectAsk(c, o) PROVE PromptInv'
      BY <1>9, <2>1
    <2>2. ASSUME NEW o \in Origins, NEW s \in Signs, SignAsk(s, o) PROVE PromptInv'
      BY <1>9, <2>2
    <2> QED BY <1>10, <1>11, <2>1, <2>2 DEF SiteAsks
  <1>12. CASE SiteProgress
    BY <1>1, <1>4, <1>6, <1>7, <1>8, <1>12 DEF SiteProgress
  <1> QED BY <1>1, <1>2, <1>3, <1>5, <1>11, <1>12 DEF SiteNext

----------------------------------------------------------------------------
(* The grants.                                                             *)

\* Where the call of a stored grant can be.  A grant that is still being
\* written belongs to the operation that has just landed.
GrantInv ==
  /\ \A o \in Origins : grants[o] # None =>
       /\ site[grants[o]] = o
       /\ pc[grants[o]] \in {"granting", "undoing", "connected", "done", "thrown"}
       /\ pc[grants[o]] = "granting" =>
            /\ mutations # <<>>
            /\ Head(mutations) = [op |-> "grant", by |-> grants[o]]
            /\ stage = "landed"
  /\ mutations # <<>> /\ Head(mutations).op = "revokeIf" =>
       LET t == Head(mutations).by
       IN  /\ stage = "begun" => grants[site[t]] = t
           /\ stage \in {"landed", "skipped"} => grants[site[t]] # t

\* Calls that have issued no grant move, and the queue at most grows.
LEMMA GrantKept ==
  ASSUME SiteTypeOK, QueueInv, GrantInv, UNCHANGED <<grants, stage>>,
         mutations' = mutations \/ (\E op, t : [op |-> op, by |-> t] \in Mutation /\ Enqueue(op, t)),
         \A u \in Connects : pc'[u] # pc[u] \/ site'[u] # site[u] =>
           pc[u] \notin {"granting", "undoing", "connected", "done", "thrown"},
         \A d \in Disconnects : pc[d] = "revoking" => site'[d] = site[d]
  PROVE  GrantInv'
  <1>1. \A o \in Origins : grants[o] # None =>
          /\ grants[o] \in Connects
          /\ pc'[grants[o]] = pc[grants[o]] /\ site'[grants[o]] = site[grants[o]]
    BY DEF SiteTypeOK, GrantInv
  <1>2. /\ mutations # <<>> => mutations' # <<>> /\ Head(mutations') = Head(mutations)
        /\ mutations = <<>> => stage = "queued"
    <2>1. ASSUME NEW op, NEW t, [op |-> op, by |-> t] \in Mutation, Enqueue(op, t), mutations # <<>>
          PROVE  mutations' # <<>> /\ Head(mutations') = Head(mutations)
      <3>1. PICK m \in Mutation : mutations' = Append(mutations, m)
        BY <2>1 DEF Enqueue
      <3>2. mutations \in Seq(Mutation)
        BY DEF SiteTypeOK
      <3> QED BY <2>1, <3>1, <3>2, Appended
    <2> QED BY <2>1 DEF QueueInv
  <1>3. mutations # <<>> /\ Head(mutations).op = "revokeIf" =>
          /\ Head(mutations).by \in Connects
          /\ site'[Head(mutations).by] = site[Head(mutations).by]
    BY HeadAndTail DEF SiteTypeOK, QueueInv, Awaited
  <1>4. ASSUME NEW o \in Origins, grants[o] # None
        PROVE  (/\ site[grants[o]] = o
                /\ pc[grants[o]] \in {"granting", "undoing", "connected", "done", "thrown"}
                /\ pc[grants[o]] = "granting" =>
                     /\ mutations # <<>>
                     /\ Head(mutations) = [op |-> "grant", by |-> grants[o]]
                     /\ stage = "landed")'
    BY <1>1, <1>2, <1>4 DEF GrantInv
  <1>5. CASE stage \in {"begun", "landed", "skipped"}
    <2>1. mutations # <<>> /\ Head(mutations') = Head(mutations)
      BY <1>2, <1>5
    <2> QED BY <1>3, <1>4, <2>1 DEF GrantInv
  <1>6. CASE stage \notin {"begun", "landed", "skipped"}
    BY <1>4, <1>6 DEF GrantInv
  <1> QED BY <1>5, <1>6

\* The first operation is over, and its call takes note of how it ended.
LEMMA GrantSettled ==
  ASSUME SiteTypeOK, QueueInv, GrantInv, NEW op, NEW t \in Tasks, Settled(op, t), stage' = "queued",
         UNCHANGED <<grants, site>>, \A u \in Tasks : u # t => pc'[u] = pc[u],
         \A o \in Origins : grants[o] # None /\ grants[o] = t => pc'[t] \in {"undoing", "connected", "thrown"}
  PROVE  GrantInv'
  <1>1. ASSUME NEW o \in Origins, grants[o] # None, grants[o] # t
        PROVE  pc'[grants[o]] = pc[grants[o]] /\ pc[grants[o]] # "granting"
    <2>1. grants[o] \in Connects /\ Head(mutations) # [op |-> "grant", by |-> grants[o]]
      BY <1>1 DEF SiteTypeOK, Settled
    <2> QED BY <1>1, <2>1 DEF GrantInv, Tasks
  <1> QED BY <1>1 DEF GrantInv

\* Every step keeps the grants with their calls.
LEMMA GrantStep ==
  ASSUME SiteTypeOK, QueueInv, GrantInv, [SiteNext]_siteVars
  PROVE  GrantInv'
  <1> USE SiteAssumption DEF Tasks
  <1>1. CASE UNCHANGED siteVars \/ Lock \/ Unlock \/ UserDecides
    BY <1>1, GrantKept DEF siteVars, sessionVars, promptVars, grantVars, taskVars, Lock, Unlock, UserDecides
  <1>2. CASE QueueSteps
    <2>0. UNCHANGED <<pc, site, mutations>> /\ mutations # <<>>
      BY <1>2 DEF QueueSteps, RevokeIfReads, MutationLands, MutationFails, MayWrite, taskVars
    <2>h. Head(mutations) \in Mutation /\ Awaited(Head(mutations))
      BY <2>0, HeadAndTail DEF QueueInv, SiteTypeOK
    <2>1. CASE RevokeIfReads
      <3>1. /\ stage = "queued" /\ grants' = grants
            /\ grants[site[Head(mutations).by]] = Head(mutations).by => stage' = "begun"
            /\ grants[site[Head(mutations).by]] # Head(mutations).by => stage' = "skipped"
        BY <2>1 DEF RevokeIfReads
      <3> QED BY <2>0, <3>1 DEF GrantInv
    <2>2. CASE MutationFails
      BY <2>0, <2>2 DEF MutationFails, MayWrite, GrantInv
    <2>3. CASE MutationLands
      <3>1. PICK t \in Connects \cup Disconnects, o \in Origins :
              /\ t = Head(mutations).by /\ site[t] = o
              /\ Head(mutations) = [op |-> Head(mutations).op, by |-> t]
        BY <2>h DEF Mutation, Awaited, SiteTypeOK
      <3>2. /\ stage' = "landed" /\ stage # "landed"
            /\ grants' = [grants EXCEPT ![o] = IF Head(mutations).op = "grant" THEN t ELSE None]
        BY <2>3, <3>1 DEF MutationLands, MayWrite, Writes
      <3>3. ASSUME NEW p \in Origins, p # o, grants[p] # None
            PROVE  grants'[p] = grants[p] /\ pc[grants[p]] # "granting"
        BY <3>2, <3>3 DEF GrantInv, SiteTypeOK
      <3>4. CASE Head(mutations).op = "grant"
        <4>1. t \in Connects /\ pc[t] = "granting" /\ grants'[o] = t
              /\ Head(mutations) = [op |-> "grant", by |-> t]
          BY <2>h, <3>1, <3>2, <3>4 DEF Awaited, SiteTypeOK
        <4>2. \A p \in Origins \ {o} : grants'[p] = grants[p]
          BY <3>2 DEF SiteTypeOK
        <4> QED BY <2>0, <3>1, <3>2, <3>3, <3>4, <4>1, <4>2 DEF GrantInv
      <3>5. CASE Head(mutations).op # "grant"
        <4>1. grants'[o] = None /\ \A p \in Origins \ {o} : grants'[p] = grants[p]
          BY <3>2, <3>5 DEF SiteTypeOK
        <4>2. t # None
          OBVIOUS
        <4> QED BY <2>0, <3>1, <3>2, <3>3, <3>5, <4>1, <4>2 DEF GrantInv
      <3> QED BY <3>4, <3>5
    <2> QED BY <1>2, <2>1, <2>2, <2>3 DEF QueueSteps
  <1>3. ASSUME NEW c \in Connects, ConnectSteps(c) PROVE GrantInv'
    <2>1. CASE ConnectPrompt(c) \/ ConnectRefused(c)
      BY <2>1, GrantKept DEF ConnectPrompt, ConnectRefused, Prompts, Approved, Declined, Goes, SiteTypeOK, grantVars
    <2>2. CASE ConnectGrants(c)
      <3>1. pc[c] = "prompted" /\ pc' = [pc EXCEPT ![c] = "granting"] /\ Enqueue("grant", c)
            /\ UNCHANGED <<grants, stage, site>> /\ [op |-> "grant", by |-> c] \in Mutation
        BY <2>2 DEF ConnectGrants, Approved, Declined, Goes, Enqueue, Mutation
      <3> QED BY <3>1, GrantKept DEF SiteTypeOK
    <2>3. CASE ConnectGranted(c)
      <3>1. /\ Settled("grant", c) /\ stage' = "queued" /\ UNCHANGED <<grants, site>>
            /\ \A u \in Tasks : u # c => pc'[u] = pc[u]
            /\ pc'[c] = (IF stage = "landed" THEN IF InSession(c) THEN "connected" ELSE "undoing" ELSE "failed")
            /\ pc[c] = "granting"
        BY <2>3 DEF ConnectGranted, Goes, SiteTypeOK
      <3>2. ASSUME NEW o \in Origins, grants[o] # None, grants[o] = c
            PROVE  pc'[c] \in {"undoing", "connected", "thrown"}
        BY <3>1, <3>2 DEF GrantInv
      <3> QED BY <3>1, <3>2, GrantSettled
    <2>4. CASE ConnectUndone(c)
      <3>1. /\ Settled("revokeIf", c) /\ stage' = "queued" /\ UNCHANGED <<grants, site>>
            /\ \A u \in Tasks : u # c => pc'[u] = pc[u]
            /\ pc'[c] = (IF stage = "failed" THEN "thrown" ELSE "failed")
        BY <2>4 DEF ConnectUndone, Dequeue, Goes, SiteTypeOK
      <3>2. ASSUME NEW o \in Origins, grants[o] # None, grants[o] = c
            PROVE  pc'[c] \in {"undoing", "connected", "thrown"}
        BY <3>1, <3>2 DEF GrantInv, Settled
      <3> QED BY <3>1, <3>2, GrantSettled
    <2> QED BY <1>3, <2>1, <2>2, <2>3, <2>4 DEF ConnectSteps
  <1>4. ASSUME NEW d \in Disconnects, DisconnectSteps(d) PROVE GrantInv'
    <2>1. CASE DisconnectThrows(d) \/ DisconnectEnds(d)
      BY <2>1, GrantKept DEF DisconnectThrows, DisconnectEnds, Goes, SiteTypeOK, grantVars
    <2>2. CASE DisconnectRevokes(d)
      <3>1. pc' = [pc EXCEPT ![d] = "revoking"] /\ Enqueue("revoke", d)
            /\ UNCHANGED <<grants, stage, site>> /\ [op |-> "revoke", by |-> d] \in Mutation
        BY <2>2 DEF DisconnectRevokes, Goes, Enqueue, Mutation
      <3> QED BY <3>1, GrantKept DEF SiteTypeOK
    <2>3. CASE DisconnectRevoked(d)
      <3>1. /\ Settled("revoke", d) /\ stage' = "queued" /\ UNCHANGED <<grants, site>>
            /\ \A u \in Tasks : u # d => pc'[u] = pc[u]
        BY <2>3 DEF DisconnectRevoked, Dequeue, Goes, SiteTypeOK
      <3>2. \A o \in Origins : grants[o] # None => grants[o] # d
        BY DEF SiteTypeOK
      <3> QED BY <3>1, <3>2, GrantSettled
    <2> QED BY <1>4, <2>1, <2>2, <2>3 DEF DisconnectSteps
  <1>5. ASSUME NEW s \in Signs, SignSteps(s) PROVE GrantInv'
    BY <1>5, GrantKept DEF SignSteps, SignContext, SignInspected, SignRefused, SignStarts, Prompts, Goes,
       SiteTypeOK, grantVars
  <1>6. ASSUME NEW o \in Origins, NEW t \in Tasks,
               \/ t \in Connects /\ ConnectAsk(t, o)
               \/ t \in Disconnects /\ DisconnectAsk(t, o)
               \/ t \in Signs /\ SignAsk(t, o)
        PROVE  GrantInv'
    BY <1>6, GrantKept DEF ConnectAsk, DisconnectAsk, SignAsk, Asks, Goes, SiteTypeOK, grantVars
  <1>7. CASE WorkerDies
    <2>1. ASSUME NEW o \in Origins, grants[o] # None
          PROVE  pc'[grants[o]] \in {"connected", "done", "thrown"}
      <3>1. grants[o] \in Tasks /\ pc'[grants[o]] = IF pc[grants[o]] \in Over THEN pc[grants[o]] ELSE "done"
        BY <1>7, <2>1 DEF WorkerDies, SiteTypeOK
      <3> QED BY <2>1, <3>1 DEF GrantInv, Over
    <2>2. UNCHANGED <<grants, site>> /\ mutations' = <<>>
      BY <1>7 DEF WorkerDies
    <2> QED BY <2>1, <2>2 DEF GrantInv
  <1> QED
    BY <1>1, <1>2, <1>3, <1>4, <1>5, <1>6, <1>7 DEF SiteNext, SiteProgress, SiteAsks

----------------------------------------------------------------------------
(* The theorems.                                                           *)

SiteInv == SiteTypeOK /\ QueueInv /\ CountInv /\ PromptInv /\ GrantInv

\* The first worker finds it.
LEMMA SiteBegins ==
  ASSUME SiteInit
  PROVE  SiteInv
  <1>1. SiteTypeOK /\ QueueInv /\ PromptInv /\ GrantInv
    BY SiteAssumption DEF SiteInit, SiteTypeOK, QueueInv, PromptInv, GrantInv, SitePC, Unasked
  <1>2. \A o \in Origins : Own(o) = {} /\ Inner(o) = {} /\ connection[o].pending = 0
    BY SiteAssumption DEF SiteInit, Own, Inner, Owns, Holds, Undoing, Tasks
  <1>3. CountInv
    <2>1. IsFiniteSet({}) /\ Cardinality({}) = 0
      BY FS_EmptySet
    <2>2. ASSUME NEW o \in Origins
          PROVE  /\ IsFiniteSet(Own(o)) /\ IsFiniteSet(Inner(o))
                 /\ connection[o].pending = Cardinality(Own(o)) + Cardinality(Inner(o))
      <3>1. Own(o) = {} /\ Inner(o) = {} /\ connection[o].pending = 0
        BY <1>2
      <3> QED BY <2>1, <3>1
    <2> QED BY <2>2 DEF CountInv
  <1> QED BY <1>1, <1>3 DEF SiteInv

\* The invariant is inductive.
THEOREM SiteInvariant == SiteSpec => []SiteInv
  <1>1. SiteInit => SiteInv
    BY SiteBegins
  <1>2. SiteInv /\ [SiteNext]_siteVars => SiteInv'
    BY QueueStep, CountStep, TypeStep, PromptStep, GrantStep DEF SiteInv
  <1> QED BY <1>1, <1>2, PTL DEF SiteSpec

(* Every variable keeps its type.  What makes this more than bookkeeping   *)
(* is the count of the open changes of a connection: no path finishes one  *)
(* that was not begun, so it stays a natural number                        *)
(* (arkade-approvals.ts:27-39).                                            *)
THEOREM SiteTypes == SiteSpec => []SiteTypeOK
  <1>1. SiteInv => SiteTypeOK
    BY DEF SiteInv
  <1> QED BY <1>1, SiteInvariant, PTL

(* No prompt outlives the session it was asked under                       *)
(* (provider-handlers.ts:144-148, 390-407).                                *)
THEOREM PromptsBelongToTheSession == SiteSpec => []PromptInSession
  <1>1. SiteInv => PromptInSession
    BY DEF SiteInv, PromptInv, PromptInSession
  <1> QED BY <1>1, SiteInvariant, PTL

(* When every call is over no connection is still changing, whichever      *)
(* writes failed (arkade-approvals.ts:27-39, permissions.ts:88-137).       *)
THEOREM ChangesFinish == SiteSpec => []ChangesAreFinished
  <1>1. SiteInv => ChangesAreFinished
    <2> SUFFICES ASSUME SiteInv, \A t \in Tasks : pc[t] \in Over, NEW o \in Origins
                 PROVE  connection[o].pending = 0
      BY DEF ChangesAreFinished
    <2>1. \A t \in Tasks : pc[t] \notin {"rejecting", "throwing", "revoking", "telling", "granting", "undoing"}
      BY DEF Over
    <2>2. \A t : ~Undoing(t)
      BY <2>1, UndoingIsHead DEF SiteInv, SiteTypeOK, Tasks
    <2>3. Own(o) = {} /\ Inner(o) = {}
      BY <2>1, <2>2 DEF Own, Inner, Owns, Holds, Tasks
    <2> QED BY <2>3, FS_EmptySet DEF SiteInv, CountInv
  <1> QED BY <1>1, SiteInvariant, PTL

(* A connect that was refused has left no grant in the storage, although a *)
(* lock may come at any point of its write (provider-handlers.ts:155-163). *)
THEOREM FailedConnectsGrantNothing == SiteSpec => []FailedConnectGrantsNothing
  <1>1. SiteInv => FailedConnectGrantsNothing
    BY SiteAssumption DEF SiteInv, GrantInv, FailedConnectGrantsNothing
  <1> QED BY <1>1, SiteInvariant, PTL

(* The compensation of a connect never takes the grant of another one that *)
(* was told it is connected: only a disconnect of the site does            *)
(* (permissions.ts:124-138).                                               *)
THEOREM GrantsGoByDisconnect == SiteSpec => GrantGoesByDisconnect
  <1> DEFINE A == \A o \in Origins :
                    grants[o] # None /\ pc[grants[o]] = "connected" /\ grants'[o] = None
                      => \E d \in Disconnects : site[d] = o /\ pc[d] = "revoking"
  <1>1. SiteInv /\ [SiteNext]_siteVars => [A]_siteVars
    <2> SUFFICES ASSUME SiteInv, SiteNext, NEW o \in Origins, grants[o] # None,
                        pc[grants[o]] = "connected", grants'[o] = None
                 PROVE  \E d \in Disconnects : site[d] = o /\ pc[d] = "revoking"
      OBVIOUS
    <2>1. MutationLands
      BY DEF SiteNext, SiteProgress, QueueSteps, SiteAsks, ConnectSteps, DisconnectSteps, SignSteps,
         UserDecides, RevokeIfReads, MutationFails, Lock, Unlock, WorkerDies, ConnectPrompt, ConnectRefused,
         ConnectGrants, ConnectGranted, ConnectUndone, DisconnectRevokes, DisconnectThrows, DisconnectRevoked,
         DisconnectEnds, SignContext, SignInspected, SignRefused, SignStarts, ConnectAsk, DisconnectAsk,
         SignAsk, Enqueue, grantVars
    <2> DEFINE m == Head(mutations)
    <2>2. mutations # <<>> /\ m \in Mutation /\ Awaited(m)
      <3>1. mutations # <<>> /\ mutations \in Seq(Mutation)
        BY <2>1 DEF MutationLands, MayWrite, SiteInv, SiteTypeOK
      <3>2. m \in Mutation /\ m = mutations[1] /\ 1 \in 1..Len(mutations)
        BY <3>1, HeadAndTail
      <3> QED BY <3>1, <3>2 DEF SiteInv, QueueInv
    <2>3. site[m.by] = o /\ m.op # "grant"
      BY <2>1, <2>2, SiteAssumption DEF MutationLands, Writes, Awaited, SiteInv, SiteTypeOK
    <2>4. m.op # "revokeIf"
      BY <2>1, <2>2, <2>3 DEF MutationLands, MayWrite, Awaited, SiteInv, GrantInv
    <2> QED BY <2>2, <2>3, <2>4 DEF Awaited
  <1>2. SiteSpec => [][A]_siteVars
    BY <1>1, SiteInvariant, PTL DEF SiteSpec
  <1> QED BY <1>2 DEF GrantGoesByDisconnect

----------------------------------------------------------------------------
(* The gate.  Every step is one the gate has promised, or none of its      *)
(* business.                                                               *)

GateStep == [Gate!Next]_(Gate!promiseVars)

\* Nobody comes or goes, and the request in flight stays or ends.
LEMMA GateRests ==
  ASSUME \A t \in Prompting : CallerOf(t)' = CallerOf(t),
         prompt' = prompt \/ (prompt # None /\ prompt' = None)
  PROVE  GateStep
  <1>1. UNCHANGED [t \in Prompting |-> CallerOf(t)]
    OBVIOUS
  <1>2. CASE prompt' = prompt
    BY <1>1, <1>2 DEF GateStep, Gate!promiseVars
  <1>3. CASE prompt # None /\ prompt' = None
    BY <1>1, <1>3 DEF GateStep, Gate!Next, Gate!End
  <1> QED BY <1>2, <1>3

\* One of the callers goes from one place to another.
LEMMA CallersMove ==
  ASSUME NEW r \in Prompting, NEW to, CallerOf(r)' = to,
         \A t \in Prompting \ {r} : CallerOf(t)' = CallerOf(t)
  PROVE  [t \in Prompting |-> CallerOf(t)]'
           = [[t \in Prompting |-> CallerOf(t)] EXCEPT ![r] = to]
  OBVIOUS

\* A call comes to its prompt.
LEMMA GateEntered ==
  ASSUME SiteTypeOK, NEW r \in Prompting, Prompts(r), pc[r] \in Unasked
  PROVE  GateStep
  <1>1. /\ pc' = [pc EXCEPT ![r] = "prompted"] /\ prompt = None /\ prompt' = r
        /\ r \in Tasks /\ Prompting \subseteq Tasks
    BY DEF Prompts, Goes, Prompting, Tasks
  <1>2. CallerOf(r)' = "waits" /\ \A t \in Prompting \ {r} : CallerOf(t)' = CallerOf(t)
    BY <1>1 DEF SiteTypeOK, CallerOf, Unasked
  <1>3. [t \in Prompting |-> CallerOf(t)][r] = "idle"
    BY DEF CallerOf
  <1>4. Gate!Ask(r)
    BY <1>1, <1>2, <1>3, CallersMove DEF Gate!Ask
  <1> QED BY <1>4 DEF GateStep, Gate!Next

\* A call goes on, or comes back, with nothing of its own in flight.
LEMMA GateLeft ==
  ASSUME NEW r \in Tasks, prompt # r \/ StorageFails, UNCHANGED prompt, pc'[r] # "prompted",
         pc'[r] \in Unasked => pc[r] \in Unasked,
         \A u \in Tasks \ {r} : pc'[u] = pc[u]
  PROVE  GateStep
  <1>1. \A t \in Prompting \ {r} : CallerOf(t)' = CallerOf(t)
    BY DEF CallerOf, Prompting, Tasks
  <1>2. CASE r \notin Prompting \/ CallerOf(r)' = CallerOf(r)
    BY <1>1, <1>2, GateRests
  <1>3. CASE r \in Prompting /\ CallerOf(r)' # CallerOf(r)
    <2>1. CallerOf(r) \in {"idle", "waits"} /\ CallerOf(r)' = "back"
      BY <1>3 DEF CallerOf
    <2>2. [t \in Prompting |-> CallerOf(t)][r] = CallerOf(r)
      BY <1>3
    <2>3. [t \in Prompting |-> CallerOf(t)]' = [[t \in Prompting |-> CallerOf(t)] EXCEPT ![r] = "back"]
      BY <1>1, <1>3, <2>1, CallersMove
    <2>4. Gate!Return(r) \/ Gate!Forgo(r)
      BY <2>1, <2>2, <2>3 DEF Gate!Return, Gate!Forgo
    <2> QED BY <1>3, <2>4 DEF GateStep, Gate!Next
  <1> QED BY <1>2, <1>3

\* The worker has died.
LEMMA GateRestarts ==
  ASSUME SiteTypeOK, WorkerDies
  PROVE  GateStep
  <1>1. /\ prompt' = None
        /\ \A t \in Prompting : pc'[t] = IF pc[t] \in Over THEN pc[t] ELSE "done"
    BY DEF WorkerDies, Prompting, Tasks
  <1>2. \A t \in Prompting : /\ CallerOf(t)' \in {"idle", "back"}
                             /\ CallerOf(t)' = "idle" => CallerOf(t) = "idle"
    BY <1>1 DEF CallerOf, Over, Unasked
  <1> DEFINE callers == [t \in Prompting |-> CallerOf(t)]
  <1>3. callers' \in [Prompting -> {"idle", "back"}]
    BY <1>2
  <1>4. \A r \in Prompting : callers'[r] = "idle" => callers[r] = "idle"
    BY <1>2
  <1>5. Gate!Restart
    BY <1>1, <1>3, <1>4 DEF Gate!Restart
  <1> QED BY <1>5 DEF GateStep, Gate!Next

\* Whatever the sites and the user do.
LEMMA SitesStepGate ==
  ASSUME SiteInv, [SiteNext]_siteVars
  PROVE  GateStep
  <1> USE SiteAssumption DEF Tasks
  <1>0. /\ SiteTypeOK
        /\ prompt # None =>
             /\ prompt \in Tasks /\ verdict[prompt] = "none"
             /\ pc[prompt] \in {"prompted", "failed", "done"}
    BY DEF SiteInv, PromptInv, Abandoned
  <1>1. CASE UNCHANGED siteVars \/ Unlock \/ QueueSteps \/ Lock \/ UserDecides
    <2>1. /\ UNCHANGED pc
          /\ prompt' = prompt \/ (prompt # None /\ prompt' = None)
      BY <1>1 DEF siteVars, promptVars, taskVars, Unlock, QueueSteps, RevokeIfReads, MutationLands,
         MutationFails, Lock, RefusePrompt, EndPrompt, UserDecides
    <2> QED BY <2>1, GateRests DEF CallerOf
  <1>2. ASSUME NEW c \in Connects, ConnectSteps(c) PROVE GateStep
    <2>1. CASE ConnectPrompt(c)
      BY <1>0, <2>1, GateEntered DEF ConnectPrompt, Prompting, Unasked
    <2>2. CASE ConnectRefused(c) \/ ConnectGrants(c) \/ ConnectGranted(c) \/ ConnectUndone(c)
      <3>1. UNCHANGED prompt /\ (prompt # c \/ StorageFails)
        BY <1>0, <2>2 DEF ConnectRefused, ConnectGrants, ConnectGranted, ConnectUndone, Approved, Declined, promptVars
      <3>2. pc'[c] \notin Unasked \cup {"prompted"} /\ \A u \in Tasks \ {c} : pc'[u] = pc[u]
        BY <1>0, <2>2 DEF ConnectRefused, ConnectGrants, ConnectGranted, ConnectUndone, Goes, SiteTypeOK, Unasked
      <3> QED BY <3>1, <3>2, GateLeft
    <2> QED BY <1>2, <2>1, <2>2 DEF ConnectSteps
  <1>3. ASSUME NEW d \in Disconnects, DisconnectSteps(d) PROVE GateStep
    <2>1. UNCHANGED prompt /\ \A u \in Prompting : pc'[u] = pc[u]
      BY <1>0, <1>3 DEF DisconnectSteps, DisconnectRevokes, DisconnectThrows, DisconnectRevoked, DisconnectEnds,
         Goes, SiteTypeOK, promptVars, Prompting
    <2> QED BY <2>1, GateRests DEF CallerOf
  <1>4. ASSUME NEW s \in Signs, SignSteps(s) PROVE GateStep
    <2>1. CASE Prompts(s) /\ pc[s] \in Unasked
      BY <1>0, <2>1, GateEntered DEF Prompting
    <2>2. CASE ~(Prompts(s) /\ pc[s] \in Unasked)
      <3>1. UNCHANGED prompt /\ (prompt # s \/ StorageFails)
        BY <1>0, <1>4, <2>2 DEF SignSteps, SignContext, SignInspected, SignRefused, SignStarts, Approved, Declined,
           promptVars, Unasked
      <3>2. /\ pc'[s] # "prompted" /\ (pc'[s] \in Unasked => pc[s] \in Unasked)
            /\ \A u \in Tasks \ {s} : pc'[u] = pc[u]
        BY <1>0, <1>4, <2>2 DEF SignSteps, SignContext, SignInspected, SignRefused, SignStarts, Goes,
           SiteTypeOK, Unasked
      <3> QED BY <3>1, <3>2, GateLeft
    <2> QED BY <2>1, <2>2
  <1>5. ASSUME NEW o \in Origins, NEW t \in Connects \cup Signs, ConnectAsk(t, o) \/ SignAsk(t, o)
        PROVE  GateStep
    <2>1. UNCHANGED prompt /\ prompt # t /\ pc[t] = "new"
      BY <1>0, <1>5 DEF ConnectAsk, SignAsk, Asks, promptVars
    <2>2. pc'[t] \in {"checked", "done"} /\ \A u \in Tasks \ {t} : pc'[u] = pc[u]
      BY <1>0, <1>5 DEF ConnectAsk, SignAsk, Asks, Goes, SiteTypeOK
    <2> QED BY <2>1, <2>2, GateLeft DEF Unasked
  <1>6. ASSUME NEW o \in Origins, NEW d \in Disconnects, DisconnectAsk(d, o) PROVE GateStep
    <2>1. /\ \A u \in Prompting : pc'[u] = pc[u]
          /\ prompt' = prompt \/ (prompt # None /\ prompt' = None)
      BY <1>0, <1>6 DEF DisconnectAsk, Asks, Goes, SiteTypeOK, Prompting, PromptsOf, RefusePrompt, EndPrompt, promptVars
    <2> QED BY <2>1, GateRests DEF CallerOf
  <1>7. CASE WorkerDies
    BY <1>0, <1>7, GateRestarts
  <1>8. CASE SiteProgress
    BY <1>1, <1>2, <1>3, <1>4, <1>8 DEF SiteProgress
  <1>9. CASE SiteAsks
    <2>1. ASSUME NEW o \in Origins, NEW c \in Connects, ConnectAsk(c, o) PROVE GateStep
      BY <1>5, <2>1
    <2>2. ASSUME NEW o \in Origins, NEW s \in Signs, SignAsk(s, o) PROVE GateStep
      BY <1>5, <2>2
    <2>3. ASSUME NEW o \in Origins, NEW d \in Disconnects, DisconnectAsk(d, o) PROVE GateStep
      BY <1>6, <2>3
    <2> QED BY <1>9, <2>1, <2>2, <2>3 DEF SiteAsks
  <1> QED BY <1>1, <1>7, <1>8, <1>9 DEF SiteNext

(* The requests of the sites use the gate as it promises to be used: this  *)
(* module's gate is no other than the one Approvals implements             *)
(* (approvals.ts:17-25, provider-handlers.ts:144-163, 390-407).            *)
THEOREM SitesUseTheGate == SiteSpec => GateUsedAsPromised
  <1>1. SiteInit => Gate!Init
    BY SiteAssumption DEF SiteInit, Gate!Init, CallerOf, Unasked, Prompting, Tasks
  <1>2. SiteInv /\ [SiteNext]_siteVars => GateStep
    BY SitesStepGate
  <1> QED BY <1>1, <1>2, SiteInvariant, PTL DEF SiteSpec, GateUsedAsPromised, Gate!Spec, GateStep
=============================================================================
