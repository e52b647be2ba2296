------------------------- MODULE JunctionConfig_proofs -------------------------
(* Comparing the yellow channels of the rows is enough, for a table of any *)
(* size and content: in every phase of a loaded one each vehicle approach  *)
(* shows one lamp of its own.                                              *)
EXTENDS JunctionConfig, FiniteSetTheorems, FunctionTheorems, TLAPS

Line == Seq(PhaseMessageType)

(* The entries of a kind in front of a column.                             *)
Before(line, types, j) == {k \in Columns(line, types) : k < j}

LEMMA ColumnsFinite ==
  ASSUME NEW line \in Line, NEW types
  PROVE  /\ Columns(line, types) \subseteq 1 .. Len(line)
         /\ IsFiniteSet(Columns(line, types))
         /\ Cardinality(Columns(line, types)) \in 0 .. Len(line)
<1>1. Columns(line, types) \subseteq 1 .. Len(line) /\ Len(line) \in Nat
  BY DEF Columns, Line
<1>2. IsFiniteSet(1 .. Len(line)) /\ Cardinality(1 .. Len(line)) = Len(line)
  <2>1. Len(line) \in Int /\ 1 \in Int /\ Len(line) - 1 + 1 = Len(line)
    BY <1>1
  <2>2. IsFiniteSet(1 .. Len(line))
        /\ Cardinality(1 .. Len(line)) = IF 1 > Len(line) THEN 0 ELSE Len(line) - 1 + 1
    BY <2>1, FS_Interval, Zenon
  <2> QED  BY <1>1, <2>2
<1>3. IsFiniteSet(Columns(line, types)) /\ Cardinality(Columns(line, types)) <= Len(line)
  BY <1>1, <1>2, FS_Subset
<1> QED  BY <1>1, <1>3, FS_CardinalityType

LEMMA BeforeFinite ==
  ASSUME NEW line \in Line, NEW types, NEW j \in Nat
  PROVE  IsFiniteSet(Before(line, types, j)) /\ Cardinality(Before(line, types, j)) \in Nat
<1>1. Before(line, types, j) \subseteq Columns(line, types)
  BY DEF Before
<1> QED  BY <1>1, ColumnsFinite, FS_Subset, FS_CardinalityType

(* Further right there are as many in front or more, and one more when the *)
(* column on the left is of the kind itself.                               *)
LEMMA BeforeGrows ==
  ASSUME NEW line \in Line, NEW types, NEW i \in Nat, NEW j \in Nat, i < j
  PROVE  /\ Cardinality(Before(line, types, i)) <= Cardinality(Before(line, types, j))
         /\ i \in Columns(line, types) =>
              Cardinality(Before(line, types, i)) + 1 <= Cardinality(Before(line, types, j))
<1>1. IsFiniteSet(Before(line, types, i)) /\ IsFiniteSet(Before(line, types, j))
  BY BeforeFinite
<1>2. Columns(line, types) \subseteq Nat
  BY ColumnsFinite DEF Line
<1>3. Before(line, types, i) \subseteq Before(line, types, j)
  BY <1>2 DEF Before
<1>4. ASSUME i \in Columns(line, types)
      PROVE  Cardinality(Before(line, types, i)) + 1 <= Cardinality(Before(line, types, j))
  <2>1. Before(line, types, i) \cup {i} \subseteq Before(line, types, j)
    BY <1>3, <1>4 DEF Before
  <2>2. i \notin Before(line, types, i)
    BY DEF Before
  <2>3. Cardinality(Before(line, types, i) \cup {i}) = Cardinality(Before(line, types, i)) + 1
    BY <1>1, <2>2, FS_AddElement
  <2> QED  BY <1>1, <2>1, <2>3, FS_Subset
<1> QED  BY <1>1, <1>3, <1>4, FS_Subset

LEMMA ChannelIndexIs ==
  ASSUME NEW line \in Line, NEW j \in Nat
  PROVE  /\ ChannelIndex(line, j) \in Nat
         /\ ChannelIndex(line, j) = 3 * Cardinality(Before(line, VehicleTypes, j))
                                      + 2 * Cardinality(Before(line, PedestrianTypes, j))
<1>1. ChannelIndex(line, j) = 3 * Cardinality(Before(line, VehicleTypes, j))
                                + 2 * Cardinality(Before(line, PedestrianTypes, j))
  BY Zenon DEF ChannelIndex, Before
<1>2. /\ Cardinality(Before(line, VehicleTypes, j)) \in Nat
      /\ Cardinality(Before(line, PedestrianTypes, j)) \in Nat
  BY BeforeFinite
<1> QED  BY <1>1, <1>2

(* A vehicle entry takes three channels, a pedestrian entry two.           *)
LEMMA ChannelsApart ==
  ASSUME NEW line \in Line, NEW i \in Nat, NEW j \in Nat, i < j
  PROVE  /\ i \in Columns(line, VehicleTypes) => ChannelIndex(line, i) + 3 <= ChannelIndex(line, j)
         /\ i \in Columns(line, PedestrianTypes) => ChannelIndex(line, i) + 2 <= ChannelIndex(line, j)
BY BeforeFinite, BeforeGrows, ChannelIndexIs

(* As many yellow channels as vehicle entries.                             *)
LEMMA OneYellowEach ==
  ASSUME NEW line \in Line
  PROVE  /\ YellowOf(line) \subseteq Nat
         /\ Cardinality(YellowOf(line)) = Cardinality(Columns(line, VehicleTypes))
<1> DEFINE C == Columns(line, VehicleTypes)
           f == [j \in C |-> ChannelIndex(line, j) + 2]
<1>1. C \subseteq Nat /\ IsFiniteSet(C)
  BY ColumnsFinite DEF Line
<1>2. \A j \in C : ChannelIndex(line, j) \in Nat
  BY <1>1, ChannelIndexIs
<1>3. f \in [C -> YellowOf(line)] /\ \A y \in YellowOf(line) : \E j \in C : f[j] = y
  BY DEF YellowOf
<1>4. \A i, j \in C : f[i] = f[j] => i = j
  <2>1. \A i, j \in C : i < j => f[i] # f[j]
    BY <1>1, <1>2, ChannelsApart
  <2> QED  BY <1>1, <2>1
<1>5. f \in Bijection(C, YellowOf(line))
  BY <1>3, <1>4, Fun_IsBij
<1>6. ExistsBijection(C, YellowOf(line))
  BY <1>5 DEF ExistsBijection
<1> QED  BY <1>1, <1>2, <1>6, FS_Bijection DEF YellowOf

(* What a phase switches on among the channels of one of its vehicle       *)
(* entries is one of that entry's own lamps, red or green.                 *)
Lit(line, y) ==
  \E lamp \in {y - 2, y - 1} : OnChannels(line) \cap (y - 2 .. y) = {lamp}

LEMMA OneLampEach ==
  ASSUME NEW line \in Line, NEW y \in YellowOf(line)
  PROVE  Lit(line, y)
<1> DEFINE On(k) == ChannelIndex(line, k) + (IF line[k] \in {"GREEN_PHASE", "GREEN_PED"} THEN 1 ELSE 0)
           V == Columns(line, VehicleTypes)
           P == Columns(line, PedestrianTypes)
<1>1. PICK j \in V : y = ChannelIndex(line, j) + 2
  BY DEF YellowOf
<1>2. Columns(line, VehicleTypes \cup PedestrianTypes) = V \cup P /\ V \cup P \subseteq Nat
  BY ColumnsFinite DEF Columns, Line
<1>3. \A k \in V \cup P : ChannelIndex(line, k) \in Nat
  BY <1>2, ChannelIndexIs
<1>4. On(j) \in {y - 2, y - 1}
  BY <1>1, <1>3
<1>5. ASSUME NEW k \in V \cup P, k # j
      PROVE  On(k) < y - 2 \/ On(k) > y
  <2>1. CASE k < j
    <3>1. ChannelIndex(line, k) + 2 <= ChannelIndex(line, j)
      BY <1>2, <1>3, <2>1, ChannelsApart
    <3> QED  BY <1>1, <1>3, <3>1
  <2>2. CASE j < k
    <3>1. ChannelIndex(line, j) + 3 <= ChannelIndex(line, k)
      BY <1>2, <1>3, <2>2, ChannelsApart
    <3> QED  BY <1>1, <1>3, <3>1
  <2> QED  BY <1>2, <1>5, <2>1, <2>2
<1>6. OnChannels(line) = {On(k) : k \in V \cup P}
  BY <1>2 DEF OnChannels
<1>7. OnChannels(line) \cap (y - 2 .. y) = {On(j)}
  BY <1>1, <1>2, <1>3, <1>4, <1>5, <1>6
<1> QED  BY <1>4, <1>7 DEF Lit

-----------------------------------------------------------------------------
(* The rows compared so far have the same yellow channels, which are those *)
(* of row 1, the only one whose entries were checked and counted.          *)
Compared == IF pc = "loaded" THEN DOMAIN phases ELSE {r \in DOMAIN phases : r < row}

Read ==
  /\ config.rows \in Rows
  /\ phases \in Seq(Line)
  /\ pc \in Section \cup {"count", "yellow", "loaded", "exit"}
  /\ pc \notin {"junction", "phases", "exit"} => phases # <<>>

Counted ==
  /\ pc \in Section \cup {"count"} => row = 1 /\ yellowChannels = {}
  /\ pc \in {"yellow", "loaded"} =>
       /\ row \in DOMAIN phases
       /\ row = 1 /\ pc = "yellow" => yellowChannels = {}
       /\ numVehicle = Cardinality(Columns(phases[1], VehicleTypes))
       /\ numVehicle > 0 => \A r \in Compared : YellowOf(phases[r]) = yellowChannels

Loading == Read /\ Counted

LEMMA EntryType ==
  ASSUME NEW entry
  PROVE  TypeOf(entry) \in PhaseMessageType
BY DEF TypeOf, PhaseMessageType

LEMMA TableRead ==
  ASSUME Read, LoadPhases
  PROVE  phases' \in Seq(Line) /\ phases' # <<>>
<1>1. PICK m \in 1 .. MaxRows : config.rows \in [1 .. m -> Row]
  BY DEF Read, Rows
<1>2. m \in Nat \ {0}
  BY <1>1
<1>3. \A r \in 1 .. m : phases'[r] \in Line
  <2>1. SUFFICES ASSUME NEW r \in 1 .. m
                 PROVE  phases'[r] \in Line
    OBVIOUS
  <2>2. config.rows[r] \in Row
    BY <1>1
  <2>3. PICK n \in 1 .. MaxColumns : config.rows[r] \in [1 .. n -> Entry]
    BY <2>2 DEF Row
  <2>4. n \in Nat /\ DOMAIN config.rows[r] = 1 .. n
    BY <2>3
  <2>5. phases'[r] = [j \in 1 .. n |-> TypeOf(config.rows[r][j])]
    BY <1>1, <2>4 DEF LoadPhases
  <2>6. phases'[r] \in [1 .. n -> PhaseMessageType]
    BY <2>5, EntryType
  <2> QED  BY <2>4, <2>6 DEF Line
<1>4. DOMAIN phases' = 1 .. m /\ phases' = [r \in 1 .. m |-> phases'[r]]
  BY <1>1 DEF LoadPhases
<1>5. phases' \in [1 .. m -> Line]
  BY <1>3, <1>4
<1> QED  BY <1>2, <1>5

LEMMA ReadKept ==
  ASSUME Read, [Next]_vars
  PROVE  Read'
<1>1. CASE MissingKey \/ DurationsMismatch \/ BadFirstRow \/ InconsistentYellow
  BY <1>1 DEF MissingKey, DurationsMismatch, BadFirstRow, InconsistentYellow, Exit, Read
<1>2. CASE LoadSection
  BY <1>2 DEF LoadSection, After, Section, Read
<1>3. CASE LoadPhases
  BY <1>3, TableRead DEF LoadPhases, After, Section, Read
<1>4. CASE SetVehicleAndPedestrianCount \/ SetYellowChannels
  BY <1>4 DEF SetVehicleAndPedestrianCount, SetYellowChannels, TakeYellow, Read
<1>5. CASE UNCHANGED vars
  BY <1>5 DEF vars, Read
<1> QED  BY <1>1, <1>2, <1>3, <1>4, <1>5 DEF Next

LEMMA FirstRowYellow ==
  ASSUME NEW line \in Line, Cardinality(Columns(line, VehicleTypes)) > 0
  PROVE  YellowOf(line) # {}
<1>1. Columns(line, VehicleTypes) # {}
  BY FS_EmptySet
<1> QED  BY <1>1 DEF YellowOf

LEMMA CountedKept ==
  ASSUME Loading, [Next]_vars
  PROVE  Counted'
<1>1. CASE MissingKey \/ DurationsMismatch \/ BadFirstRow \/ InconsistentYellow
  BY <1>1 DEF MissingKey, DurationsMismatch, BadFirstRow, InconsistentYellow, Exit, Section, Counted
<1>2. CASE LoadSection \/ LoadPhases
  BY <1>2 DEF LoadSection, LoadPhases, After, Section, counts, Loading, Counted
<1>3. CASE SetVehicleAndPedestrianCount
  <2>1. 1 \in DOMAIN phases /\ \A r \in DOMAIN phases : ~ (r < 1)
    BY <1>3 DEF SetVehicleAndPedestrianCount, Section, Loading, Read
  <2> QED  BY <1>3, <2>1 DEF SetVehicleAndPedestrianCount, Section, Loading, Counted, Compared
<1>4. CASE SetYellowChannels
  <2>1. /\ pc = "yellow" /\ row \in DOMAIN phases /\ DOMAIN phases = 1 .. Len(phases)
        /\ Len(phases) \in Nat /\ phases[1] \in Line /\ UNCHANGED <<phases, numVehicle>>
    BY <1>4 DEF SetYellowChannels, TakeYellow, counts, Loading, Read, Counted
  <2>2. ASSUME numVehicle > 0
        PROVE  /\ YellowOf(phases[row]) = yellowChannels'
               /\ \A r \in DOMAIN phases : r < row => YellowOf(phases[r]) = yellowChannels'
    <3>1. CASE row = 1
      BY <1>4, <2>1, <3>1 DEF SetYellowChannels, TakeYellow, Loading, Counted
    <3>2. CASE row # 1
      <4>1. YellowOf(phases[1]) = yellowChannels /\ yellowChannels # {}
        BY <2>1, <2>2, <3>2, FirstRowYellow DEF Loading, Counted, Compared
      <4>2. yellowChannels' = yellowChannels /\ YellowOf(phases[row]) = yellowChannels
        BY <1>4, <4>1 DEF SetYellowChannels, TakeYellow, Consistent
      <4>3. \A r \in DOMAIN phases : r < row => YellowOf(phases[r]) = yellowChannels
        BY <2>1, <2>2 DEF Loading, Counted, Compared
      <4> QED  BY <4>2, <4>3
    <3> QED  BY <3>1, <3>2
  <2>3. CASE row < Len(phases)
    <3>1. pc' = "yellow" /\ row' = row + 1 /\ row' \in DOMAIN phases' /\ row' # 1
      BY <1>4, <2>1, <2>3 DEF SetYellowChannels, TakeYellow
    <3>2. \A r \in DOMAIN phases : r < row' => r < row \/ r = row
      BY <2>1, <3>1
    <3> QED  BY <2>1, <2>2, <3>1, <3>2 DEF Section, Loading, Counted, Compared
  <2>4. CASE ~ (row < Len(phases))
    <3>1. pc' = "loaded" /\ row' = row
      BY <1>4, <2>1, <2>4 DEF SetYellowChannels, TakeYellow
    <3>2. \A r \in DOMAIN phases : r < row \/ r = row
      BY <2>1, <2>4
    <3> QED  BY <2>1, <2>2, <3>1, <3>2 DEF Section, Loading, Counted, Compared
  <2> QED  BY <2>3, <2>4
<1>5. CASE UNCHANGED vars
  BY <1>5 DEF vars, counts, Loading, Counted, Compared
<1> QED  BY <1>1, <1>2, <1>3, <1>4, <1>5 DEF Next

LEMMA InitLoading ==
  ASSUME Init
  PROVE  Loading
BY DEF Init, Section, Loading, Read, Counted

LEMMA LoadedIsLit ==
  ASSUME Loading
  PROVE  EveryVehicleLit
<1>1. SUFFICES ASSUME pc = "loaded", numVehicle > 0
               PROVE  /\ Cardinality(yellowChannels) = numVehicle
                      /\ \A r \in DOMAIN phases : \A y \in yellowChannels : Lit(phases[r], y)
  BY DEF EveryVehicleLit, Lit
<1>2. \A r \in DOMAIN phases : phases[r] \in Line /\ YellowOf(phases[r]) = yellowChannels
  BY <1>1 DEF Loading, Read, Counted, Compared
<1>3. 1 \in DOMAIN phases
  BY <1>1 DEF Section, Loading, Read
<1>4. Cardinality(yellowChannels) = numVehicle
  BY <1>1, <1>2, <1>3, OneYellowEach DEF Loading, Counted
<1> QED  BY <1>2, <1>4, OneLampEach

(* See EveryVehicleLit: for a table of any size and any entries.           *)
THEOREM VehiclesLit == Spec => []EveryVehicleLit
<1>1. ASSUME Loading, [Next]_vars
      PROVE  Loading'
  BY <1>1, ReadKept, CountedKept DEF Loading
<1> QED  BY <1>1, InitLoading, LoadedIsLit, PTL DEF Spec

(* A loaded junction with a vehicle approach has channels to flash.        *)
LEMMA LoadedFlashes ==
  ASSUME Loading, pc = "loaded", numVehicle > 0
  PROVE  yellowChannels # {}
<1>1. 1 \in DOMAIN phases /\ phases[1] \in Line
  BY DEF Section, Loading, Read
<1> QED  BY <1>1, FirstRowYellow DEF Loading, Counted, Compared

-----------------------------------------------------------------------------
(* What is kept of a table is within the bounds of the table.              *)
Sized ==
  /\ Len(phases) <= MaxRows
  /\ \A r \in DOMAIN phases : Len(phases[r]) <= MaxColumns
  /\ numVehicle \in 0 .. MaxColumns /\ numPedestrian \in 0 .. MaxColumns
  /\ row \in 1 .. MaxRows
  /\ yellowChannels \subseteq Nat

LEMMA InitSized ==
  ASSUME MaxRows \in Nat, MaxColumns \in Nat, Init
  PROVE  Sized
<1>1. PICK n \in 1 .. MaxRows : config.durations = n
  BY DEF Init
<1>2. phases = <<>> /\ Len(phases) = 0 /\ DOMAIN phases = {}
  BY DEF Init
<1> QED  BY <1>1, <1>2 DEF Init, Sized

LEMMA TableSized ==
  ASSUME MaxRows \in Nat, MaxColumns \in Nat, Read, LoadPhases
  PROVE  Len(phases') <= MaxRows /\ \A r \in DOMAIN phases' : Len(phases'[r]) <= MaxColumns
<1>1. PICK m \in 1 .. MaxRows : config.rows \in [1 .. m -> Row]
  BY DEF Read, Rows
<1>2. phases' = [r \in 1 .. m |-> [j \in DOMAIN config.rows[r] |-> TypeOf(config.rows[r][j])]]
  BY <1>1 DEF LoadPhases
<1>3. Len(phases') = m /\ DOMAIN phases' = 1 .. m
  BY <1>1, <1>2, TableRead
<1>4. ASSUME NEW r \in 1 .. m
      PROVE  Len(phases'[r]) <= MaxColumns
  <2>1. PICK n \in 1 .. MaxColumns : config.rows[r] \in [1 .. n -> Entry]
    BY <1>1 DEF Row
  <2>2. DOMAIN phases'[r] = 1 .. n
    BY <1>2, <2>1
  <2>3. phases'[r] \in Line
    BY <1>3, TableRead
  <2>4. Len(phases'[r]) = n
    BY <2>1, <2>2, <2>3 DEF Line
  <2> QED  BY <2>1, <2>4
<1> QED  BY <1>1, <1>3, <1>4

LEMMA SizedKept ==
  ASSUME MaxRows \in Nat, MaxColumns \in Nat, Loading, Sized, [Next]_vars
  PROVE  Sized'
<1>1. CASE MissingKey \/ DurationsMismatch \/ BadFirstRow \/ InconsistentYellow
  BY <1>1 DEF MissingKey, DurationsMismatch, BadFirstRow, InconsistentYellow, Exit, counts, Sized
<1>2. CASE LoadSection
  BY <1>2 DEF LoadSection, counts, Sized
<1>3. CASE LoadPhases
  BY <1>3, TableSized DEF LoadPhases, counts, Loading, Sized
<1>4. CASE SetVehicleAndPedestrianCount
  <2>1. phases[1] \in Line /\ Len(phases[1]) <= MaxColumns
    BY <1>4 DEF SetVehicleAndPedestrianCount, Section, Loading, Read, Sized
  <2>2. /\ Cardinality(Columns(phases[1], VehicleTypes)) \in 0 .. Len(phases[1])
        /\ Cardinality(Columns(phases[1], PedestrianTypes)) \in 0 .. Len(phases[1])
        /\ Len(phases[1]) \in Nat
    BY <2>1, ColumnsFinite DEF Line
  <2> QED  BY <1>4, <2>1, <2>2 DEF SetVehicleAndPedestrianCount, Sized
<1>5. CASE SetYellowChannels
  <2>1. row \in DOMAIN phases /\ phases[row] \in Line /\ Len(phases) \in Nat /\ row \in 1 .. MaxRows
    BY <1>5 DEF SetYellowChannels, TakeYellow, Loading, Read, Counted, Sized
  <2>2. YellowOf(phases[row]) \subseteq Nat
    BY <2>1, OneYellowEach
  <2>3. row' \in 1 .. MaxRows
    BY <1>5, <2>1 DEF SetYellowChannels, TakeYellow, Sized
  <2> QED  BY <1>5, <2>2, <2>3 DEF SetYellowChannels, TakeYellow, counts, Sized
<1>6. CASE UNCHANGED vars
  BY <1>6 DEF vars, counts, Sized
<1> QED  BY <1>1, <1>2, <1>3, <1>4, <1>5, <1>6 DEF Next

LEMMA SizedIsTyped ==
  ASSUME Loading, Sized
  PROVE  TypeOK
BY DEF Loading, Read, Line, Sized, TypeOK
=============================================================================
