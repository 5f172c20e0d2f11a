----------------------------- MODULE MCCoreValues -----------------------------
(***************************************************************************)
(* CoreValuesCheck with bytes of 3 bits, so that every tag of a key also   *)
(* is a byte of a string, and with sources of up to four bytes; and        *)
(* RasterWindowsCheck on 3-bit coordinates: every x and width, and enough  *)
(* of the y axis for a window to be empty, partial, whole or saturated in  *)
(* that direction too.                                                     *)
(***************************************************************************)
EXTENDS CoreValuesCheck, RasterWindowsCheck

MCWindows == [x : Coord, y : {0, 2}, width : Coord, height : {0, 1, 3, MaxCoord}]

MCGrains == [width : Coord, height : {0, 2, MaxCoord}]

MCReads == [offset : 0 .. 3, size : {0, 1, 3}] \cup {[offset |-> MaxOffset, size |-> 1]}

Added(kind, value) == [kind |-> kind, value |-> value]

\* Strings that look like the bytes of other values, doubles that are two
\* NaNs, two zeros and a number, and an integer for each sign.
Single ==
  {Added("string", << >>), Added("string", <<0>>), Added("string", <<1, 1>>),
   Added("string", <<0, 0, 0>>), Added("string", <<5>>), Added("string", <<1, 0, 0, 5>>),
   Added("uint", 0), Added("uint", 1), Added("uint", 63), Added("int", 1), Added("int", -1),
   Added("bool", TRUE), Added("bool", FALSE), Added("null", 0),
   Added("double", 0), Added("double", 32), Added("double", 25), Added("double", 60),
   Added("double", 9), Added("double", 24)}

MCAdds == {<< >>} \cup {<<a>> : a \in Single} \cup {<<a, b>> : a \in Single, b \in Single}

MCNameOf ==
  [type \in DataTypes |->
     CASE type = "uint8"  -> <<1, 0>>    [] type = "uint16"  -> <<1, 0, 0>>
       [] type = "uint32" -> <<1, 0, 1>> [] type = "int8"    -> <<0>>
       [] type = "int16"  -> <<0, 0>>    [] type = "int32"   -> <<0, 1>>
       [] type = "float32" -> <<5>>      [] type = "float64" -> <<5, 0>>]

MCRequests ==
  [band : {1, 2}, overviewLevel : {{}, {0}, {1}}, samplingStep : {0, 1, 2}, outputType : DataTypes]

MCTiles == [level : {0, 1}, x : {0, 1, 9}, y : {0, 1, 9}]

\* Values that go up and down through the whole range of a type.
Ramp(layout, type, seed) ==
  [cell \in (0 .. layout.rows - 1) \X (0 .. layout.columns - 1) \X (0 .. layout.samples - 1) |->
     LET n == seed + 7 * cell[1] + 3 * cell[2] * cell[2] + 5 * cell[3]
     IN  Lowest(type) + ((n * (Highest(type) \div 2 + 3)) % (Highest(type) - Lowest(type) + 1))]

MCSegments ==
  {[layout |-> layout, type |-> type, predictor |-> predictor, value |-> Ramp(layout, type, seed)] :
     layout \in {[rows |-> 2, columns |-> c, samples |-> s, sampleBytes |-> DataTypeSize(t), little |-> l] :
                   c \in {1, 3}, s \in {1, 2}, t \in {"uint8", "uint16", "int32"}, l \in BOOLEAN},
     type \in IntegerTypes, predictor \in {2, 3}, seed \in 0 .. 2}

\* The segments whose type has the size the layout gives a sample.
MCFittingSegments ==
  {segment \in MCSegments : DataTypeSize(segment.type) = segment.layout.sampleBytes}

MCFloatValues == {NaN} \cup (-40 .. 40) \cup {2^k + d : k \in 8 .. 20, d \in {-1, 0, 1}}
                   \cup {-(2^k) : k \in 8 .. 20}

-----------------------------------------------------------------------------
(***************************************************************************)
(* The two checks side by side.  One of them moves while the other has     *)
(* nothing to do.  They share no state: each step of MCSpec is one of Spec *)
(* or of WindowSpec, and every state of either is reached.                 *)
(***************************************************************************)
NoValue  == question = NoQuestion /\ Unread /\ source.size = 0
NoWindow == window = EmptyWindow /\ Unasked

MCInit == Init /\ WindowInit /\ (NoValue \/ NoWindow)

MCNext ==
  \/ NoWindow /\ Next /\ UNCHANGED windowVars
  \/ NoValue /\ WindowNext /\ UNCHANGED vars

MCSpec == MCInit /\ [][MCNext]_<<vars, windowVars>>
=============================================================================
