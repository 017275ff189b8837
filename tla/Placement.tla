------------------------------ MODULE Placement ------------------------------
(***************************************************************************)
(* select_gpu: the one choice of a GPU from a catalog observation, shared  *)
(* by the Serverless lane and the private-inference lane.                  *)
(*   offer: id, pool, memory, clouds, cuda, availability, price (by        *)
(*       product, a Serverless price may be missing), max_count, centers   *)
(*       (availability by data center);                                    *)
(*   need:  product, min_vram, gpu_count, cloud, cuda, max_rate, ids,      *)
(*       pools, centers, minimum; an empty set does not constrain.         *)
(***************************************************************************)
EXTENDS Naturals, FiniteSets

\* Availability, as ranked by _AVAILABILITY_RANK: NONE, LOW, MEDIUM, HIGH.
Availability == 0..3

NoPool == "none"

Among(x, allowed) == allowed = {} \/ x \in allowed

\* _is_compatible.
IsCompatible(o, need) ==
    /\ o.memory >= need.min_vram
    /\ need.cuda = "any" \/ o.cuda = need.cuda
    /\ need.cloud \in o.clouds
    /\ need.product = "POD" => o.max_count >= need.gpu_count
    /\ need.product = "SERVERLESS" => o.pool # NoPool
    /\ need.product \in DOMAIN o.price
    /\ Among(o.id, need.ids) /\ Among(o.pool, need.pools)
    /\ o.price[need.product] <= need.max_rate
    /\ o.availability >= need.minimum
    /\ need.centers # {} =>
          \E c \in DOMAIN o.centers \cap need.centers : o.centers[c] > 0

\* Only a pool with one catalog GPU identifies what will be bought.
ExactPool(o, offers) == Cardinality({x \in offers : x.pool = o.pool}) = 1

Candidates(offers, need) ==
    {o \in offers : /\ IsCompatible(o, need)
                    /\ need.product = "SERVERLESS" => ExactPool(o, offers)}

\* The sort key: availability downwards, then price, memory and identifier.
Before(a, b, product) ==
    \/ a.availability > b.availability
    \/ /\ a.availability = b.availability
       /\ \/ a.price[product] < b.price[product]
          \/ /\ a.price[product] = b.price[product]
             /\ a.memory < b.memory \/ (a.memory = b.memory /\ a.id <= b.id)

\* The first candidate of that order, if there is one.
Best(offers, need) ==
    LET First(found) == {o \in found : \A x \in found : Before(o, x, need.product)}
    IN UNION {First(found) : found \in {Candidates(offers, need)}}

SelectGpu(offers, need) == CHOOSE o \in Best(offers, need) : TRUE
=============================================================================
