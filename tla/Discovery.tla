------------------------------ MODULE Discovery ------------------------------
(***************************************************************************)
(* The ways into the gateway registry (services/discovery.py,              *)
(* services/gateway_import.py, api/routes/gateway.py): two scans at a      *)
(* time, the periodic one and one asked for, the import of the local       *)
(* files, and registrations by hand.  Each looks first and inserts some    *)
(* awaits later; the unique name is what the database insists on.          *)
(***************************************************************************)
EXTENDS Naturals, FiniteSets

CONSTANTS
  Names,     \* gateway names, each the first label of a host
  Domains,   \* the rest of an endpoint
  Scans,     \* runs of a scan or of the import
  MaxHands   \* bound on what operators do

ASSUME HandsAssumption == MaxHands \in Nat

Targets  == Names \X Domains
NoTarget == << >>

VARIABLES
  known,    \* the registry: the endpoint of each name
  origin,   \* the label of each row: found by a scan, or not
  scan,     \* each run: the endpoints it saw registered, those left to look at
  hands     \* bound counter

discoveryVars == <<known, origin, scan, hands>>

DiscoveryInit ==
  /\ known = [n \in Names |-> NoTarget]
  /\ origin = [n \in Names |-> "hand"]
  /\ scan = [s \in Scans |-> [pc |-> "new", existing |-> {}, todo |-> {}]]
  /\ hands = 0

ByHand == hands < MaxHands /\ hands' = hands + 1

\* DNS and mDNS answer with any endpoints; then the registry is listed.
ScanReads(s) ==
  /\ scan[s].pc = "new"
  /\ \E found \in SUBSET Targets :
       scan' = [scan EXCEPT ![s] =
         [pc |-> "register", existing |-> {known[n] : n \in Names} \ {NoTarget}, todo |-> found]]
  /\ UNCHANGED <<known, origin, hands>>

\* Mutant of Derived: the name depends on more than the endpoint.
DerivedAnew(t) == Names

Derived(t) == {t[1]}

\* A name that is taken is an error of this endpoint only.
ScanRegisters(s, t) ==
  /\ scan[s].pc = "register" /\ t \in scan[s].todo
  /\ \E n \in Derived(t) :
       LET insert == t \notin scan[s].existing /\ known[n] = NoTarget IN
         /\ known'  = IF insert THEN [known EXCEPT ![n] = t] ELSE known
         /\ origin' = IF insert THEN [origin EXCEPT ![n] = "scan"] ELSE origin
         /\ scan' = [scan EXCEPT ![s].todo = @ \ {t},
                                 ![s].existing = IF insert THEN @ \union {t} ELSE @]
  /\ UNCHANGED hands

\* The import looks at the name of a directory, and inserts it if it is free.
ImportLooks(s) ==
  /\ scan[s].pc = "new"
  /\ \E n \in Names, t \in Targets :
       scan' = [scan EXCEPT ![s] =
         IF known[n] = NoTarget THEN [pc |-> "import", existing |-> {n}, todo |-> {t}]
         ELSE [pc |-> "done", existing |-> {}, todo |-> {}]]
  /\ UNCHANGED <<known, origin, hands>>

Insert(n, t) ==
  /\ known[n] = NoTarget
  /\ known' = [known EXCEPT ![n] = t]
  /\ origin' = [origin EXCEPT ![n] = "hand"]

ImportInserts(s) ==
  /\ scan[s].pc = "import"
  /\ \A n \in scan[s].existing, t \in scan[s].todo :
       Insert(n, t) \/ (known[n] # NoTarget /\ UNCHANGED <<known, origin>>)
  /\ scan' = [scan EXCEPT ![s] = [pc |-> "done", existing |-> {}, todo |-> {}]]
  /\ UNCHANGED hands

RegisterByHand(n, t) ==
  /\ ByHand
  /\ Insert(n, t)
  /\ UNCHANGED scan

Unregister(n) ==
  /\ ByHand
  /\ known[n] # NoTarget
  /\ known' = [known EXCEPT ![n] = NoTarget]
  /\ UNCHANGED <<origin, scan>>

DiscoveryNext ==
  \/ \E s \in Scans : ScanReads(s) \/ ImportLooks(s) \/ ImportInserts(s)
  \/ \E s \in Scans, t \in Targets : ScanRegisters(s, t)
  \/ \E n \in Names, t \in Targets : RegisterByHand(n, t)
  \/ \E n \in Names : Unregister(n)

DiscoverySpec == DiscoveryInit /\ [][DiscoveryNext]_discoveryVars

-----------------------------------------------------------------------------
(***************************************************************************)
(* No endpoint is registered twice by scans, however they overlap: what    *)
(* they saw registered is stale, and the unique name stands in for it.     *)
(***************************************************************************)
FoundOnce ==
  \A m, n \in Names :
    m # n /\ known[m] # NoTarget /\ known[m] = known[n] => ~ (origin[m] = "scan" /\ origin[n] = "scan")

=============================================================================
