------------------------------ MODULE Placement ------------------------------
(***************************************************************************)
(* placement.py: plan_module_placements gives every module of a game an    *)
(* address.  The search for a free range is a loop without a bound, and is *)
(* taken one candidate at a time.                                          *)
(***************************************************************************)
EXTENDS Integers, Sequences, FiniteSets

CONSTANTS
    Modules,      \* paths of executables
    Rank,         \* their case-folded order
    Images,       \* what an executable may be: see Image
    Limit,        \* UINT32_LIMIT
    Grain,        \* PSP_ALLOCATOR_GRAIN
    First         \* PSP_FIRST_USER_ALLOCATION

\* exec: an ET_EXEC file.  segments: its PT_LOAD headers with a size, whose
\* fields are words.
Segment == [vaddr: 0 .. Limit - 1, memsz: 1 .. Limit - 1, align: 0 .. Limit - 1]
Image == [exec: BOOLEAN, segments: SUBSET Segment]

ASSUME RankAssumption ==
    /\ Rank \in [Modules -> Nat]
    /\ \A m, n \in Modules : Rank[m] = Rank[n] => m = n
ASSUME ModulesAssumption == IsFiniteSet(Modules)
ASSUME ImagesAssumption == Images \subseteq Image
ASSUME SpaceAssumption ==
    Limit \in Nat /\ Grain \in Nat \ {0} /\ First \in Nat

VARIABLES
    inputs,      \* path -> [image, boot], the modules to be placed
    stage,       \* "idle", "fixed", "boot", "more_boots", "secondary", "done", "raised"
    placed,      \* path -> placement, of those placed so far
    cursor,      \* where the next search starts
    candidate    \* of the search in progress, or -1

planVars == <<inputs, stage, placed, cursor, candidate>>

Placed == [load: Nat, end: Nat, claim: BOOLEAN]

PlanTypeOK ==
    /\ DOMAIN inputs \subseteq Modules
    /\ \A m \in DOMAIN inputs : inputs[m] \in [image: Images, boot: BOOLEAN]
    /\ stage \in {"idle", "fixed", "boot", "more_boots", "secondary", "done", "raised"}
    /\ DOMAIN placed \subseteq DOMAIN inputs
    /\ \A m \in DOMAIN placed : placed[m] \in Placed
    /\ cursor \in Nat /\ candidate \in Nat \cup {-1}

-----------------------------------------------------------------------------
(* One image *)

PowerOfTwo(n) == \E k \in 0 .. n : n = 2 ^ k

\* _layout.
Base(image) == CHOOSE b \in {s.vaddr : s \in image.segments} :
                  \A s \in image.segments : b <= s.vaddr
Top(image) == CHOOSE e \in {s.vaddr + s.memsz : s \in image.segments} :
                  \A s \in image.segments : s.vaddr + s.memsz <= e
Size(image) == Top(image) - Base(image)
Asked(s) == IF s.align > 1 /\ PowerOfTwo(s.align) THEN s.align ELSE Grain
Alignment(image) ==
    CHOOSE a \in {Grain} \cup {Asked(s) : s \in image.segments} :
        a >= Grain /\ \A s \in image.segments : a >= Asked(s)
HasLayout(image) == image.segments # {} /\ Top(image) <= Limit

\* _align_up.
AlignUp(value, alignment) == ((value + alignment - 1) \div alignment) * alignment

\* A plan of this module alone: the check before the plan of the game.
FitsAlone(image) ==
    /\ HasLayout(image)
    /\ image.exec \/ AlignUp(First, Alignment(image)) + Size(image) <= Limit

-----------------------------------------------------------------------------
(* The order of the modules *)

Fixed == {m \in DOMAIN inputs : inputs[m].image.exec}
Boots == {m \in DOMAIN inputs \ Fixed : inputs[m].boot}
Secondaries == (DOMAIN inputs \ Fixed) \ Boots

\* The first module in order of those not yet placed.
IsNext(m, group) ==
    /\ m \in group \ DOMAIN placed
    /\ \A n \in group \ DOMAIN placed : Rank[m] <= Rank[n]

-----------------------------------------------------------------------------
(* Ranges *)

Overlaps(start, end, r) == start < r.end /\ r.load < end

\* Mutant of Occupied: the fixed modules are not avoided.
OccupiedByRelocatable == {placed[m] : m \in DOMAIN placed \ Fixed}

\* occupied, or boot_ranges while boot modules are placed.
Occupied ==
    {placed[m] : m \in IF stage = "secondary" THEN DOMAIN placed ELSE DOMAIN placed \cap Boots}

\* _overlap: the first in order of those that collide.
Collisions(start, end) == {r \in Occupied : Overlaps(start, end, r)}
FirstCollision(start, end) ==
    CHOOSE r \in Collisions(start, end) : \A o \in Collisions(start, end) :
        r.load < o.load \/ (r.load = o.load /\ r.end <= o.end)

Record(m, load, claim) ==
    placed' = [n \in DOMAIN placed \cup {m} |->
        IF n = m THEN [load |-> load, end |-> load + Size(inputs[m].image), claim |-> claim]
        ELSE placed[n]]

-----------------------------------------------------------------------------
(* The plan *)

PlanInit ==
    /\ inputs = <<>> /\ stage = "idle" /\ placed = <<>>
    /\ cursor = First /\ candidate = -1

\* Every module has been through the check of its own, so neither _layout nor
\* _boot_placement can raise here.
Begin(given) ==
    /\ stage = "idle" /\ \A m \in DOMAIN given : FitsAlone(given[m].image)
    /\ inputs' = given /\ stage' = "fixed"
    /\ UNCHANGED <<placed, cursor, candidate>>

GoOn(next) ==
    /\ stage' = next
    /\ UNCHANGED <<inputs, placed, cursor, candidate>>

\* _fixed_placement, of every ET_EXEC image.
PlaceFixed ==
    /\ stage = "fixed" /\ stage' = "boot"
    /\ placed' = [m \in Fixed |-> [load |-> Base(inputs[m].image),
                                   end |-> Top(inputs[m].image), claim |-> TRUE]]
    /\ UNCHANGED <<inputs, cursor, candidate>>

\* _boot_placement, of the first boot module; no range is in its way.
PlaceBoot ==
    /\ stage = "boot"
    /\ \/ Boots = {} /\ GoOn("secondary")
       \/ \E m \in Boots :
             LET image == inputs[m].image
                 load == AlignUp(First, Alignment(image))
             IN  /\ IsNext(m, Boots)
                 /\ Record(m, load, TRUE)
                 /\ cursor' = load + Size(image)      \* the larger: cursor is First
                 /\ stage' = "more_boots"
                 /\ UNCHANGED <<inputs, candidate>>

Group == IF stage = "more_boots" THEN Boots ELSE Secondaries

\* _find_free up to its loop.
Search ==
    /\ stage \in {"more_boots", "secondary"} /\ candidate = -1
    /\ \E m \in Group :
          /\ IsNext(m, Group)
          /\ candidate' = AlignUp(cursor, Alignment(inputs[m].image))
    /\ UNCHANGED <<inputs, stage, placed, cursor>>

\* Mutant of Turn: the search goes on past the end of a collision.
TurnPast ==
    /\ stage \in {"more_boots", "secondary"} /\ candidate # -1
    /\ \E m \in Group :
          LET end == candidate + Size(inputs[m].image) IN
          /\ IsNext(m, Group)
          /\ \/ end > Limit /\ GoOn("raised")
             \/ /\ end <= Limit /\ Collisions(candidate, end) # {}
                /\ candidate' = AlignUp(FirstCollision(candidate, end).end + 1,
                                     Alignment(inputs[m].image))
                /\ UNCHANGED <<inputs, stage, placed, cursor>>
             \/ /\ end <= Limit /\ Collisions(candidate, end) = {}
                /\ Record(m, candidate, FALSE)
                /\ cursor' = end /\ candidate' = -1
                /\ UNCHANGED <<inputs, stage>>

\* Mutant of Turn: the search goes on where the collision starts.
TurnBack ==
    /\ stage \in {"more_boots", "secondary"} /\ candidate # -1
    /\ \E m \in Group :
          LET end == candidate + Size(inputs[m].image) IN
          /\ IsNext(m, Group)
          /\ \/ end > Limit /\ GoOn("raised")
             \/ /\ end <= Limit /\ Collisions(candidate, end) # {}
                /\ candidate' = FirstCollision(candidate, end).load
                /\ UNCHANGED <<inputs, stage, placed, cursor>>
             \/ /\ end <= Limit /\ Collisions(candidate, end) = {}
                /\ Record(m, candidate, FALSE)
                /\ cursor' = end /\ candidate' = -1
                /\ UNCHANGED <<inputs, stage>>

\* Mutant of Turn: a range that ends at the limit is taken for one beyond it.
TurnEarly ==
    /\ stage \in {"more_boots", "secondary"} /\ candidate # -1
    /\ \E m \in Group :
          LET end == candidate + Size(inputs[m].image) IN
          /\ IsNext(m, Group)
          /\ \/ end >= Limit /\ GoOn("raised")
             \/ /\ end < Limit /\ Collisions(candidate, end) # {}
                /\ candidate' = AlignUp(FirstCollision(candidate, end).end,
                                        Alignment(inputs[m].image))
                /\ UNCHANGED <<inputs, stage, placed, cursor>>
             \/ /\ end < Limit /\ Collisions(candidate, end) = {}
                /\ Record(m, candidate, FALSE)
                /\ cursor' = end /\ candidate' = -1
                /\ UNCHANGED <<inputs, stage>>

\* One turn of the loop of _find_free, and what follows it.
Turn ==
    /\ stage \in {"more_boots", "secondary"} /\ candidate # -1
    /\ \E m \in Group :
          LET image == inputs[m].image
              end == candidate + Size(image)
          IN  /\ IsNext(m, Group)
              /\ \/ end > Limit /\ GoOn("raised")
                 \/ /\ end <= Limit /\ Collisions(candidate, end) # {}
                    /\ candidate' = AlignUp(FirstCollision(candidate, end).end,
                                            Alignment(image))
                    /\ UNCHANGED <<inputs, stage, placed, cursor>>
                 \/ /\ end <= Limit /\ Collisions(candidate, end) = {}
                    /\ Record(m, candidate, FALSE)
                    /\ cursor' = end      \* max(cursor, end) for a boot: end is larger
                    /\ candidate' = -1
                    /\ UNCHANGED <<inputs, stage>>

NextGroup ==
    \/ stage = "more_boots" /\ Boots \subseteq DOMAIN placed /\ GoOn("secondary")
    \/ stage = "secondary" /\ Secondaries \subseteq DOMAIN placed /\ GoOn("done")

Plan == PlaceFixed \/ PlaceBoot \/ Search \/ Turn \/ NextGroup

-----------------------------------------------------------------------------
(* Properties *)

\* A secondary module gets a range of its own, whatever claims the fixed and
\* boot modules make (plan_module_placements: "collision-free").
SecondariesKeepClear ==
    \A m \in Secondaries \cap DOMAIN placed : \A n \in DOMAIN placed \ {m} :
        ~Overlaps(placed[m].load, placed[m].end, placed[n])

\* The loop that jumps from collision to collision misses no place: every
\* aligned address between the start of the search and the place found collides,
\* and, where the search gives up, every one up to the end of the addresses
\* (_find_free: "No 32-bit address range remains").
FirstFit ==
    [][/\ \A m \in (DOMAIN placed' \ DOMAIN placed) \cap Secondaries :
             \A a \in cursor .. placed'[m].load - 1 :
                 a % Alignment(inputs[m].image) = 0
                 => Collisions(a, a + Size(inputs[m].image)) # {}
       /\ stage # "raised" /\ stage' = "raised" =>
             \E m \in Group :
                 /\ IsNext(m, Group)
                 /\ \A a \in cursor .. Limit - Size(inputs[m].image) :
                       a % Alignment(inputs[m].image) = 0
                       => Collisions(a, a + Size(inputs[m].image)) # {}]_planVars
=============================================================================
