------------------------------ MODULE Routing ------------------------------
(***************************************************************************)
(* Which storage provider an upload is sent to: the loop of doAllocate     *)
(* over SelectStorageProvider, against the operators and the owners of     *)
(* policies who change providers, weights and policies while it runs.      *)
(*                                                                         *)
(* A selection is not one read.  It lists the providers page by page, then *)
(* reads the policy the space references, then the candidates of that      *)
(* policy, and chooses; a change can fall between any two of these.        *)
(***************************************************************************)
EXTENDS Ordering

CONSTANTS
    Providers,   \* a finite set of numbers: the order of the providers' DIDs
    Policies, Spaces, Requests,
    PageSize,    \* the limit of a page of storage_provider.List
    MaxWeight,   \* bound: weights
    MaxChanges,  \* bound: changes of providers and policies
    None

ASSUME RoutingAssumption ==
    /\ Providers \subseteq Nat \ {0} /\ IsFiniteSet(Providers)
    /\ PageSize \in Nat \ {0} /\ MaxWeight \in Nat /\ MaxChanges \in Nat
    /\ None \notin Nat \cup Policies

VARIABLES
    weight,       \* storage_provider: the weight of a provider; None: no row
    policies,     \* routing_policy: the candidates; {}: no row
    spacePolicy,  \* space_routing: the policy a space references
    req,          \* the control state of every request
    seen,         \* (history) the policies, None too, that a request's space has
                  \* referenced since its selection began
    allowed,      \* (history) the candidates these have had since then
    steady,       \* (history) the providers with a weight that have been among
                  \* the candidates of all of them at every time since then
    changes       \* how many changes have been made

stores  == <<weight, policies, spacePolicy>>
history == <<seen, allowed, steady>>
vars == <<stores, req, history, changes>>

-----------------------------------------------------------------------------

\* space: the space a blob is added to; excl: the providers doAllocate gave up
\* on; cursor: where the next page starts; found: the providers listed, with
\* their weights; cands: the providers the policy leaves; policy, todo: what a
\* put works on and has still to check; pick: the provider chosen.
RequestStates ==
    [pc : {"idle", "list", "reference", "candidates", "choose", "chosen",
           "unavailable", "put_check", "put_store"},
     space : Spaces \cup {None}, excl : SUBSET Providers, cursor : Nat,
     found : Seq(Providers \X (0..MaxWeight)), policy : Policies \cup {None},
     cands : SUBSET Providers, todo : SUBSET Providers,
     pick : Providers \cup {None}]

Idle == [pc |-> "idle", space |-> None, excl |-> {}, cursor |-> 0, found |-> <<>>,
         policy |-> None, cands |-> {}, todo |-> {}, pick |-> None]

TypeOK ==
    /\ weight \in [Providers -> 0..MaxWeight \cup {None}]
    /\ policies \in [Policies -> SUBSET Providers]
    /\ spacePolicy \in [Spaces -> Policies \cup {None}]
    /\ req \in [Requests -> RequestStates]
    /\ seen \in [Requests -> SUBSET (Policies \cup {None})]
    /\ allowed \in [Requests -> SUBSET Providers]
    /\ steady \in [Requests -> SUBSET Providers]
    /\ changes \in 0..MaxChanges

\* The foreign key of space_routing.
Configured ==
    \A s \in Spaces : spacePolicy[s] # None => policies[spacePolicy[s]] # {}

\* Any configuration the operators can have made.
Init ==
    /\ weight \in [Providers -> 0..MaxWeight \cup {None}]
    /\ policies \in [Policies -> SUBSET Providers]
    /\ spacePolicy \in [Spaces -> Policies \cup {None}]
    /\ Configured
    /\ req = [r \in Requests |-> Idle]
    /\ seen = [r \in Requests |-> {}]
    /\ allowed = [r \in Requests |-> {}] /\ steady = [r \in Requests |-> {}]
    /\ changes = 0

-----------------------------------------------------------------------------
\* Helpers.

At(r, pc) == req[r].pc = pc
Become(r, q) == req' = [req EXCEPT ![r] = q]
Registered == {p \in Providers : weight[p] # None}
Weighted == {p \in Registered : weight[p] > 0}

\* The providers that a policy, or none, leaves.
Candidates(p) == IF p = None THEN Providers ELSE policies[p]

\* Mutant: a policy that leaves nobody is dropped.
FilteredFallback(q) ==
    LET any == {i \in 1..Len(q.found) : q.found[i][1] \notin q.excl /\ q.found[i][2] > 0}
        kept == {i \in any : q.found[i][1] \in q.cands}
    IN  Subsequence(q.found, IF kept = {} THEN any ELSE kept)

\* filterToCandidates, filterExcludedProviders and filterZeroWeightProviders.
Filtered(q) ==
    Subsequence(q.found, {i \in 1..Len(q.found) : /\ q.found[i][1] \in q.cands
                                                  /\ q.found[i][1] \notin q.excl
                                                  /\ q.found[i][2] > 0})

Weights(f) == [i \in 1..Len(f) |-> f[i][2]]

\* The position that weightedRandomInt returns when it draws random.
WeightedRandomInt(ws, random) ==
    CHOOSE i \in 1..Len(ws) :
        /\ random - SumTo(ws, i) <= 0
        /\ \A j \in 1..(i - 1) : random - SumTo(ws, j) > 0

Draws(ws) == 0..(SumTo(ws, Len(ws)) - 1)

-----------------------------------------------------------------------------
\* doAllocate and SelectStorageProvider

\* The selection for space s starts, doAllocate having given up on e.
Start(r, s, e) ==
    /\ Become(r, [Idle EXCEPT !.pc = "list", !.space = s, !.excl = e])
    /\ seen' = [seen EXCEPT ![r] = {spacePolicy[s]}]
    /\ allowed' = [allowed EXCEPT ![r] = Candidates(spacePolicy[s])]
    /\ steady' = [steady EXCEPT ![r] = (Weighted \cap Candidates(spacePolicy[s])) \ e]

SelectBegin(r, s) ==
    /\ At(r, "idle")
    /\ Start(r, s, {})
    /\ UNCHANGED <<stores, changes>>

\* Mutant: the cursor is the extra row that was read, which is then skipped.
ListPageSkips(r) ==
    LET q == req[r]
        rest == {p \in Registered : p > q.cursor}
        page == Smallest(PageSize, rest)
        rows == [i \in 1..Cardinality(page) |-> <<InOrder(page)[i], weight[InOrder(page)[i]]>>]
        more == Cardinality(rest) > PageSize
    IN  /\ At(r, "list")
        /\ Become(r, [q EXCEPT !.found = q.found \o rows,
                               !.cursor = IF more THEN Largest(Smallest(PageSize + 1, rest)) ELSE 0,
                               !.pc = IF more THEN "list" ELSE "reference"])
        /\ UNCHANGED <<stores, history, changes>>

\* One page of listProviders: rows after the cursor, one more than the limit to
\* see whether there is another page.
ListPage(r) ==
    LET q == req[r]
        rest == {p \in Registered : p > q.cursor}
        page == Smallest(PageSize, rest)
        rows == [i \in 1..Cardinality(page) |-> <<InOrder(page)[i], weight[InOrder(page)[i]]>>]
        more == Cardinality(rest) > PageSize
    IN  /\ At(r, "list")
        /\ Become(r, [q EXCEPT !.found = q.found \o rows,
                               !.cursor = IF more THEN Largest(page) ELSE 0,
                               !.pc = IF more THEN "list" ELSE "reference"])
        /\ UNCHANGED <<stores, history, changes>>

\* resolvePolicy, first half: the policy the space references, if any.
GetSpacePolicy(r) ==
    LET q == req[r]
        p == spacePolicy[q.space]
    IN  /\ At(r, "reference")
        /\ IF p = None
           THEN Become(r, [q EXCEPT !.pc = "choose", !.cands = Providers])
           ELSE Become(r, [q EXCEPT !.pc = "candidates", !.policy = p])
        /\ UNCHANGED <<stores, history, changes>>

\* resolvePolicy, second half: its candidates.  No row: ErrCandidateUnavailable.
GetPolicy(r) ==
    LET q == req[r]
        c == policies[q.policy]
    IN  /\ At(r, "candidates")
        /\ Become(r, [q EXCEPT !.pc = IF c = {} THEN "unavailable" ELSE "choose",
                               !.cands = c])
        /\ UNCHANGED <<stores, history, changes>>

Choose(r) ==
    LET q == req[r]
        f == Filtered(q)
    IN  /\ At(r, "choose")
        /\ \/ /\ f = <<>>
              /\ Become(r, [q EXCEPT !.pc = "unavailable"])
           \/ /\ f # <<>>
              /\ \E random \in Draws(Weights(f)) :
                    Become(r, [q EXCEPT !.pc = "chosen",
                                 !.pick = f[WeightedRandomInt(Weights(f), random)][1]])
        /\ UNCHANGED <<stores, history, changes>>

\* Mutant: the policy is excluded, and not the provider.
AllocateFailsPolicy(r) ==
    LET q == req[r] IN
    /\ At(r, "chosen")
    /\ Start(r, q.space, q.excl \cup {q.policy})
    /\ UNCHANGED <<stores, changes>>

\* The allocation on the chosen provider fails: select again without it.
AllocateFails(r) ==
    LET q == req[r] IN
    /\ At(r, "chosen")
    /\ Start(r, q.space, q.excl \cup {q.pick})
    /\ UNCHANGED <<stores, changes>>

\* The allocation succeeds, or there was nobody to ask.
AllocateEnds(r) ==
    /\ At(r, "chosen") \/ At(r, "unavailable")
    /\ Become(r, Idle)
    /\ seen' = [seen EXCEPT ![r] = {}]
    /\ allowed' = [allowed EXCEPT ![r] = {}] /\ steady' = [steady EXCEPT ![r] = {}]
    /\ UNCHANGED <<stores, changes>>

-----------------------------------------------------------------------------
\* Changes.

\* A change is made, and the selections that are running see it or not.
Change ==
    /\ changes < MaxChanges
    /\ changes' = changes + 1
    /\ seen' = [r \in Requests |->
                  IF seen[r] = {} THEN {} ELSE seen[r] \cup {spacePolicy'[req[r].space]}]
    /\ allowed' = [r \in Requests |->
                     allowed[r] \cup UNION {Candidates(p)' : p \in seen'[r]}]
    /\ steady' = [r \in Requests |->
                    {p \in steady[r] : p \in Weighted' /\ \A q \in seen'[r] : p \in Candidates(q)'}]

\* PutPolicy looks every candidate up, then replaces the candidates.
PutBegin(r, p, c) ==
    /\ At(r, "idle")
    /\ changes < MaxChanges
    /\ c # {}
    /\ Become(r, [Idle EXCEPT !.pc = "put_check", !.policy = p, !.cands = c, !.todo = c])
    /\ UNCHANGED <<stores, history, changes>>

PutCheck(r, p) ==
    LET q == req[r] IN
    /\ At(r, "put_check")
    /\ p \in q.todo
    /\ IF p \in Registered
       THEN Become(r, [q EXCEPT !.todo = q.todo \ {p},
                                !.pc = IF q.todo = {p} THEN "put_store" ELSE "put_check"])
       ELSE Become(r, Idle)
    /\ UNCHANGED <<stores, history, changes>>

PutStore(r) ==
    /\ At(r, "put_store")
    /\ policies' = [policies EXCEPT ![req[r].policy] = req[r].cands]
    /\ Become(r, Idle)
    /\ UNCHANGED <<weight, spacePolicy>>
    /\ Change

\* UseSpacePolicy: the policy must exist.
UseSpacePolicy(s, p) ==
    /\ policies[p] # {}
    /\ spacePolicy' = [spacePolicy EXCEPT ![s] = p]
    /\ UNCHANGED <<weight, policies, req>>
    /\ Change

ClearSpacePolicy(s) ==
    /\ spacePolicy' = [spacePolicy EXCEPT ![s] = None]
    /\ UNCHANGED <<weight, policies, req>>
    /\ Change

\* A provider is registered with weight zero.
AdminProviderRegister(p) ==
    /\ p \notin Registered
    /\ weight' = [weight EXCEPT ![p] = 0]
    /\ UNCHANGED <<policies, spacePolicy, req>>
    /\ Change

AdminProviderDeregister(p) ==
    /\ p \in Registered
    /\ weight' = [weight EXCEPT ![p] = None]
    /\ UNCHANGED <<policies, spacePolicy, req>>
    /\ Change

AdminProviderWeightSet(p, w) ==
    /\ p \in Registered
    /\ weight' = [weight EXCEPT ![p] = w]
    /\ UNCHANGED <<policies, spacePolicy, req>>
    /\ Change

-----------------------------------------------------------------------------

Next ==
    \/ \E r \in Requests :
          \/ \E s \in Spaces : SelectBegin(r, s)
          \/ ListPage(r) \/ GetSpacePolicy(r) \/ GetPolicy(r) \/ Choose(r)
          \/ AllocateFails(r) \/ AllocateEnds(r)
          \/ \E p \in Policies, c \in SUBSET Providers : PutBegin(r, p, c)
          \/ \E p \in Providers : PutCheck(r, p)
          \/ PutStore(r)
    \/ \E s \in Spaces : ClearSpacePolicy(s) \/ \E p \in Policies : UseSpacePolicy(s, p)
    \/ \E p \in Providers :
          \/ AdminProviderRegister(p) \/ AdminProviderDeregister(p)
          \/ \E w \in 0..MaxWeight : AdminProviderWeightSet(p, w)

Spec == Init /\ [][Next]_vars

-----------------------------------------------------------------------------

\* "When the space references a routing policy, only the policy's candidates
\* are considered" (SelectStorageProvider): a provider is chosen only if it was
\* a candidate, at some time during the selection, of a policy that the space
\* had referenced by then; a policy none of whose candidates is left never
\* falls back to other providers, and one that was given up on is not chosen.
RoutedWithinPolicy ==
    \A r \in Requests : At(r, "chosen") => req[r].pick \in allowed[r] \ req[r].excl

\* An upload is refused with CandidateUnavailable only if there was no provider
\* that it could have been sent to all the time: paging through the providers
\* while rows come and go loses none that stays.
UnavailableJustified ==
    \A r \in Requests : At(r, "unavailable") => steady[r] = {}

\* "Weight determines chance of selection for uploads relative to other
\* providers" (storageprovider.Record): a provider with a weight has a chance.
EveryWeightSelectable ==
    \A r \in Requests : At(r, "choose") =>
        LET ws == Weights(Filtered(req[r])) IN
        \A i \in 1..Len(ws) : \E random \in Draws(ws) : WeightedRandomInt(ws, random) = i
=============================================================================
