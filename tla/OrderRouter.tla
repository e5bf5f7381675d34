---------------------------- MODULE OrderRouter ----------------------------
(***************************************************************************)
(* The order router (order_router.hpp, order_router.cpp): the venue        *)
(* registry, the routing table, client order ids made of a session epoch   *)
(* and a counter, and its construction anew, with another epoch, when the  *)
(* process restarts.  Counters of rejected orders are left out.            *)
(***************************************************************************)
EXTENDS Bits, Sequences, FiniteSets

CONSTANTS
    Names, Symbols,
    Epochs,         \* the epochs of successive runs
    CounterBits,    \* the values of counter_bits those runs use
    IdWidth,        \* 64: the width of a client order id
    MaxCounterBits, \* 48
    VenueLimit,     \* 0xFFFE
    Configs         \* the configuration files: see configure_router

ASSUME RouterAssumption ==
    /\ Epochs \subseteq Nat /\ CounterBits \subseteq Nat
    /\ IdWidth \in Nat /\ MaxCounterBits \in 0..IdWidth /\ VenueLimit \in Nat

(* The keys and words of a file need not name a symbol or a state.         *)
ASSUME ConfigsAssumption ==
    Configs \subseteq [venues: Seq(Names), states: Seq(Names \X STRING), routes: Seq(Int \X Names)]

VARIABLES
    epoch, counter_bits, counter_max, counter, valid,
    venues,      \* a sequence: the VenueId is the 1-based index
    routes,      \* a function from the mapped symbols to VenueIds
    routed,      \* stats_.routed
    result,      \* the last RouteResult
    epochs,      \* the epochs used so far, this run's included
    issued,      \* the client order ids of all runs
    minted       \* how many times one was issued

layout  == <<epoch, counter_bits, counter_max, valid>>
history == <<epochs, issued, minted>>
routervars    == <<layout, counter, venues, routes, routed, result, history>>

kNoVenue   == 0
VenueState == {"Down", "Up", "DrainOnly"}

Decision == {"Routed", "RejectRouterNotConfigured", "RejectInvalidOrder",
             "RejectUnknownSymbol", "RejectVenueDown", "RejectVenueDraining",
             "RejectIdSpaceExhausted"}

NoResult == [decision |-> "RejectRouterNotConfigured", venue |-> kNoVenue,
             client_order_id |-> 0, venue_seq |-> 0]

-----------------------------------------------------------------------------
(* Variant: whether the epoch fits is not looked at.                       *)
FitsUnchecked(e, bits) == bits \in 1..MaxCounterBits

(* Does the epoch fit in what the counter leaves?                          *)
Fits(e, bits) ==
    /\ bits \in 1..MaxCounterBits
    /\ e <= Pow2[IdWidth - bits] - 1

(* The id: the epoch shifted left, the counter in the bits below.          *)
IdOf(e, bits, n) == ((e * Pow2[bits]) % Pow2[IdWidth]) + n

(* The constructor, in a process that starts with epoch e.                 *)
Construct(e, bits) ==
    /\ epoch' = e /\ counter_bits' = bits
    /\ counter_max' = IF bits \in 1..MaxCounterBits THEN Pow2[bits] - 1 ELSE 0
    /\ valid' = Fits(e, bits)
    /\ counter' = 1
    /\ venues' = << >> /\ routes' = << >>
    /\ routed' = 0 /\ result' = NoResult
    /\ epochs' = epochs \cup {e}

RouterInit ==
    \E e \in Epochs, bits \in CounterBits :
        /\ epoch = e /\ counter_bits = bits
        /\ counter_max = (IF bits \in 1..MaxCounterBits THEN Pow2[bits] - 1 ELSE 0)
        /\ valid = Fits(e, bits)
        /\ counter = 1
        /\ venues = << >> /\ routes = << >>
        /\ routed = 0 /\ result = NoResult
        /\ epochs = {e} /\ issued = {} /\ minted = 0

Restart ==
    /\ \E e \in Epochs \ epochs, bits \in CounterBits : Construct(e, bits)
    /\ UNCHANGED <<issued, minted>>

-----------------------------------------------------------------------------
(* The registry and the table.  A call that is refused changes nothing.    *)
find_venue(vs, name) ==
    IF \E i \in DOMAIN vs : vs[i].name = name
    THEN CHOOSE i \in DOMAIN vs : vs[i].name = name
    ELSE kNoVenue

KnownVenue(vs, venue) == venue # kNoVenue /\ venue <= Len(vs)

MayAdd(vs, name) == Len(vs) < VenueLimit /\ find_venue(vs, name) = kNoVenue

Added(vs, name, s) == Append(vs, [name |-> name, state |-> s, seq |-> 0, routed |-> 0])

Mapped(rs, symbol, venue) ==
    [y \in DOMAIN rs \cup {symbol} |-> IF y = symbol THEN venue ELSE rs[y]]

add_venue(name, initial) ==
    /\ MayAdd(venues, name)
    /\ venues' = Added(venues, name, initial)
    /\ UNCHANGED <<layout, counter, routes, routed, result, history>>

set_venue_state(venue, s) ==
    /\ KnownVenue(venues, venue)
    /\ venues' = [venues EXCEPT ![venue].state = s]
    /\ UNCHANGED <<layout, counter, routes, routed, result, history>>

on_logon(venue) ==
    /\ KnownVenue(venues, venue)
    /\ venues' = [venues EXCEPT ![venue].seq = 0, ![venue].state = "Up"]
    /\ UNCHANGED <<layout, counter, routes, routed, result, history>>

on_disconnect(venue) == set_venue_state(venue, "Down")

(* Variant: a venue that is not registered is accepted.                    *)
MapUnchecked(symbol, venue) ==
    /\ routes' = Mapped(routes, symbol, venue)
    /\ UNCHANGED <<layout, counter, venues, routed, result, history>>

map_symbol(symbol, venue) ==
    /\ KnownVenue(venues, venue)
    /\ routes' = Mapped(routes, symbol, venue)
    /\ UNCHANGED <<layout, counter, venues, routed, result, history>>

unmap_symbol(symbol) ==
    /\ symbol \in DOMAIN routes
    /\ routes' = [y \in DOMAIN routes \ {symbol} |-> routes[y]]
    /\ UNCHANGED <<layout, counter, venues, routed, result, history>>

venue_for(symbol) == IF symbol \in DOMAIN routes THEN routes[symbol] ELSE kNoVenue

-----------------------------------------------------------------------------
(* The tests of route, in their order.                                     *)
RouteDecision(positive, symbol, liquidating) ==
    LET venue == venue_for(symbol)
    IN IF ~valid THEN "RejectRouterNotConfigured"
       ELSE IF ~positive THEN "RejectInvalidOrder"
       ELSE IF venue = kNoVenue THEN "RejectUnknownSymbol"
       ELSE IF venues[venue].state = "Down" THEN "RejectVenueDown"
       ELSE IF venues[venue].state = "DrainOnly" /\ ~liquidating
            THEN "RejectVenueDraining"
       ELSE IF counter > counter_max THEN "RejectIdSpaceExhausted"
       ELSE "Routed"

Reject(decision, venue) ==
    /\ result' = [NoResult EXCEPT !.decision = decision, !.venue = venue]
    /\ UNCHANGED <<layout, counter, venues, routes, routed, history>>

Accept(venue) ==
    LET id == IdOf(epoch, counter_bits, counter)
    IN /\ counter' = counter + 1
       /\ venues' = [venues EXCEPT ![venue].seq = @ + 1, ![venue].routed = @ + 1]
       /\ routed' = routed + 1
       /\ result' = [decision |-> "Routed", venue |-> venue, client_order_id |-> id,
                     venue_seq |-> venues[venue].seq + 1]
       /\ issued' = issued \cup {id}
       /\ minted' = minted + 1
       /\ UNCHANGED <<layout, routes, epochs>>

route(positive, symbol, liquidating) ==
    LET decision == RouteDecision(positive, symbol, liquidating)
        venue    == IF decision \in {"RejectRouterNotConfigured", "RejectInvalidOrder"}
                    THEN kNoVenue ELSE venue_for(symbol)
    IN IF decision = "Routed" THEN Accept(venue) ELSE Reject(decision, venue)

-----------------------------------------------------------------------------
(* configure_router(cfg, router): cfg.venues lists names, cfg.states pairs *)
(* a name with a state, cfg.routes a symbol with a name, both in the order *)
(* of their keys.  A word that does not parse is no state and no symbol.   *)
(* The three loops share the router and stop for good at the first error.  *)
Declare(r, name) ==
    IF r.ok /\ MayAdd(r.venues, name)
    THEN [r EXCEPT !.venues = Added(@, name, "Down")]
    ELSE [r EXCEPT !.ok = FALSE]

SetState(r, entry) ==
    IF r.ok /\ find_venue(r.venues, entry[1]) # kNoVenue /\ entry[2] \in VenueState
    THEN [r EXCEPT !.venues[find_venue(r.venues, entry[1])].state = entry[2]]
    ELSE [r EXCEPT !.ok = FALSE]

(* Variant: an entry that cannot be used is skipped.                       *)
MapRouteOrSkip(r, entry) ==
    IF r.ok /\ entry[1] \in Symbols /\ find_venue(r.venues, entry[2]) # kNoVenue
    THEN [r EXCEPT !.routes = Mapped(@, entry[1], find_venue(r.venues, entry[2]))]
    ELSE r

MapRoute(r, entry) ==
    IF r.ok /\ entry[1] \in Symbols /\ find_venue(r.venues, entry[2]) # kNoVenue
    THEN [r EXCEPT !.routes = Mapped(@, entry[1], find_venue(r.venues, entry[2]))]
    ELSE [r EXCEPT !.ok = FALSE]

(* The router after all entries of a loop.                                 *)
Declared(r, names) ==
    LET Upto[i \in 0..Len(names)] == IF i = 0 THEN r ELSE Declare(Upto[i - 1], names[i])
    IN  Upto[Len(names)]

Stated(r, entries) ==
    LET Upto[i \in 0..Len(entries)] == IF i = 0 THEN r ELSE SetState(Upto[i - 1], entries[i])
    IN  Upto[Len(entries)]

Routed(r, entries) ==
    LET Upto[i \in 0..Len(entries)] == IF i = 0 THEN r ELSE MapRoute(Upto[i - 1], entries[i])
    IN  Upto[Len(entries)]

Configured(cfg) ==
    LET start == [venues |-> venues, routes |-> routes, ok |-> TRUE]
    IN  Routed(Stated(Declared(start, cfg.venues), cfg.states), cfg.routes)

configure_router(cfg) ==
    /\ LET r == Configured(cfg)
       IN venues' = r.venues /\ routes' = r.routes
    /\ UNCHANGED <<layout, counter, routed, result, history>>

-----------------------------------------------------------------------------
RouterNext ==
    \/ Restart
    \/ \E name \in Names, s \in VenueState : add_venue(name, s)
    \/ \E venue \in 1..VenueLimit :
         \/ \E s \in VenueState : set_venue_state(venue, s)
         \/ on_logon(venue)
         \/ on_disconnect(venue)
         \/ \E symbol \in Symbols : map_symbol(symbol, venue)
    \/ \E symbol \in Symbols :
         \/ unmap_symbol(symbol)
         \/ \E positive, liquidating \in BOOLEAN : route(positive, symbol, liquidating)
    \/ \E cfg \in Configs : configure_router(cfg)

RouterSpec == RouterInit /\ [][RouterNext]_routervars

-----------------------------------------------------------------------------
(* "a process that restarts and starts counting from one again cannot mint *)
(* an ID that collides with an order still live at the venue": no id is    *)
(* issued twice, in one run or in two, whether the counter runs out or the *)
(* epoch does not fit.                                                     *)
IdsNeverRepeat == Cardinality(issued) = minted

(* Every route leads to a registered venue: route dereferences venue_ptr   *)
(* of what it finds in the table without a test.                           *)
RoutesLead == \A symbol \in DOMAIN routes : KnownVenue(venues, routes[symbol])

(* "Returns false ... on the first problem rather than starting            *)
(* half-configured": when configure_router reports success, every venue of *)
(* the file is registered and every symbol it routes is mapped to a venue  *)
(* the file names for that symbol.                                         *)
ConfiguredInFull ==
    [][\A cfg \in Configs :
         Configured(cfg).ok /\ configure_router(cfg) =>
            /\ \A i \in DOMAIN cfg.venues : find_venue(venues', cfg.venues[i]) # kNoVenue
            /\ \A i \in DOMAIN cfg.routes :
                 /\ cfg.routes[i][1] \in DOMAIN routes'
                 /\ \E j \in DOMAIN cfg.routes :
                      /\ cfg.routes[j][1] = cfg.routes[i][1]
                      /\ routes'[cfg.routes[i][1]] = find_venue(venues', cfg.routes[j][2])
      ]_routervars

=============================================================================
