-------------------------- MODULE ParamHolder_proofs --------------------------
(***************************************************************************)
(* What TA-Lib's abstract call interface promises, for every table of      *)
(* functions whose frames read the places it declares: whatever setters    *)
(* succeed, fail or are repeated in whatever order, the function is called *)
(* with what was asked for last, and no block of memory is lost.           *)
(***************************************************************************)
EXTENDS ParamHolder, SequenceTheorems, TLAPS

-----------------------------------------------------------------------------
(* The inductive invariant. *)

\* A caller holds a holder or a table or nothing, and the heap is what it holds; a block is lost only
\* where some function has no inputs.
HeapExact ==
  /\ funcInfo = NoFunction \/ table = NoTable
  /\ "lost" \in heap => ~EveryFunctionHasInputs
  /\ heap \ {"lost"} =
            IF funcInfo # NoFunction THEN ToSet(Blocks(funcInfo))
            ELSE IF table = NoTable THEN {}
            ELSE IF table.magic = "func" THEN {"table"} \cup Strings(table.string) ELSE {"table"}

TableOK ==
  \/ table = NoTable
  \/ table \in [magic : {"group", "func"}, group : ToSet(GroupString) \cup {None},
                string : Seq(STRING)]

Ins(f)  == 0 .. (Len(f.inputs) - 1)
Opts(f) == 0 .. (Len(f.optInputs) - 1)
Outs(f) == 0 .. (Len(f.outputs) - 1)

\* The holder has a place for each parameter of its function, and the history remembers each.
HolderShape ==
  /\ funcInfo \in AllFunctions
  /\ DOMAIN in = Ins(funcInfo) /\ \A i \in DOMAIN in : DOMAIN in[i] = Members
  /\ DOMAIN optIn = Opts(funcInfo) /\ DOMAIN out = Outs(funcInfo)
  /\ asked \in [in : [Ins(funcInfo) -> Sources \cup {None}], opt : [Opts(funcInfo) -> Int],
                out : [Outs(funcInfo) -> Outputs \cup {None}]]
  /\ halfSet \subseteq Ins(funcInfo)

\* The bitmaps are the parameters not asked for yet.
BitmapsExact ==
  /\ inBitmap = {i \in Ins(funcInfo) : asked.in[i] = None}
  /\ outBitmap = {i \in Outs(funcInfo) : asked.out[i] = None}

\* An input that was asked for has no NULL in it, and is what was asked for as long as no refused
\* setter has written to it.
InputsExact ==
  \A i \in Ins(funcInfo) : \A n \in DOMAIN inputInfo(i).components :
    LET member == inputInfo(i).components[n]
    IN  /\ i \notin inBitmap => in[i][member] \notin {NULL, Garbage}
        /\ i \notin inBitmap \cup halfSet => in[i][member] = Pointer(asked.in[i], member)

\* The optional inputs and the outputs are what was asked for, in the member their frame reads.
OthersExact ==
  /\ \A i \in Opts(funcInfo) : optIn[i] = <<OptMember(optInputInfo(i)), asked.opt[i]>>
  /\ \A i \in Outs(funcInfo) :
        out[i] = IF asked.out[i] = None THEN NULL
                 ELSE <<OutMember(outputInfo(i)), asked.out[i]>>

\* The last answers are those the holder still gives.
AnswersFresh ==
  /\ called # NotCalled => called = CallAnswer
  /\ lookback # None => lookback = LookbackAnswer(Arguments(funcInfo.function.lookback))

HolderInv == HolderShape /\ BitmapsExact /\ InputsExact /\ OthersExact /\ AnswersFresh

IInv ==
  /\ HeapExact /\ TableOK
  /\ funcInfo # NoFunction => HolderInv
  /\ funcInfo = NoFunction => called = NotCalled /\ lookback = None /\ halfSet = {}

-----------------------------------------------------------------------------
(* What a table declares. *)

LEMMA ElementTyped ==
  ASSUME NEW S, NEW s \in Seq(S), NEW k \in DOMAIN s
  PROVE  s[k] \in S
  OBVIOUS

LEMMA FunctionTyped ==
  ASSUME NEW f \in AllFunctions
  PROVE  /\ f \in FuncDefs
         /\ Len(f.inputs) \in Nat /\ DOMAIN f.inputs = 1 .. Len(f.inputs)
         /\ Len(f.optInputs) \in Nat /\ DOMAIN f.optInputs = 1 .. Len(f.optInputs)
         /\ Len(f.outputs) \in Nat /\ DOMAIN f.outputs = 1 .. Len(f.outputs)
<1>1. f \in FuncDefs
  BY ParamHolderAssumption
<1>2. QED
  BY <1>1 DEF FuncDefs

\* Index i of a setter is parameter i + 1 of the table.
LEMMA InputTyped ==
  ASSUME NEW f \in AllFunctions, NEW i \in Ins(f)
  PROVE  /\ i \in Nat /\ i + 1 \in DOMAIN f.inputs
         /\ f.inputs[i + 1].type \in {"Price", "Real", "Integer"}
         /\ f.inputs[i + 1].components \in Seq(Members)
         /\ f.inputs[i + 1].type = "Real" => f.inputs[i + 1].components = <<"real">>
         /\ f.inputs[i + 1].type = "Integer" => f.inputs[i + 1].components = <<"integer">>
<1>1. i \in Nat /\ i + 1 \in DOMAIN f.inputs
  BY FunctionTyped DEF Ins
<1>2. f.inputs \in Seq([type : {"Price", "Real", "Integer"}, components : Seq(Members),
                        parameters : Seq(STRING)])
  BY FunctionTyped DEF FuncDefs
<1>3. f.inputs[i + 1] \in [type : {"Price", "Real", "Integer"}, components : Seq(Members),
                           parameters : Seq(STRING)]
  BY <1>1, <1>2, ElementTyped, Zenon
<1>4. QED
  BY <1>1, <1>3, ParamHolderAssumption

LEMMA OptTyped ==
  ASSUME NEW f \in AllFunctions, NEW i \in Opts(f)
  PROVE  /\ i \in Nat /\ i + 1 \in DOMAIN f.optInputs
         /\ f.optInputs[i + 1].type \in {"RealRange", "IntegerRange", "IntegerList"}
         /\ f.optInputs[i + 1].defaultValue \in Int
         /\ f.optInputs[i + 1].low \in Int /\ f.optInputs[i + 1].high \in Int
<1>1. i \in Nat /\ i + 1 \in DOMAIN f.optInputs
  BY FunctionTyped DEF Opts
<1>2. f.optInputs \in Seq([type : {"RealRange", "IntegerRange", "IntegerList"}, low : Int,
                           high : Int, paramName : STRING, defaultValue : Int])
  BY FunctionTyped DEF FuncDefs
<1>3. f.optInputs[i + 1] \in [type : {"RealRange", "IntegerRange", "IntegerList"}, low : Int,
                              high : Int, paramName : STRING, defaultValue : Int]
  BY <1>1, <1>2, ElementTyped, Zenon
<1>4. QED
  BY <1>1, <1>3

LEMMA OutTyped ==
  ASSUME NEW f \in AllFunctions, NEW i \in Outs(f)
  PROVE  /\ i \in Nat /\ i + 1 \in DOMAIN f.outputs
         /\ f.outputs[i + 1].type \in {"Real", "Integer"}
<1>1. i \in Nat /\ i + 1 \in DOMAIN f.outputs
  BY FunctionTyped DEF Outs
<1>2. f.outputs \in Seq([type : {"Real", "Integer"}, paramName : STRING])
  BY FunctionTyped DEF FuncDefs
<1>3. f.outputs[i + 1] \in [type : {"Real", "Integer"}, paramName : STRING]
  BY <1>1, <1>2, ElementTyped, Zenon
<1>4. QED
  BY <1>1, <1>3

\* A look-up finds a function of the tables or none.
LEMMA HandleFound ==
  ASSUME NEW name, TA_GetFuncHandle(name) # NoFunction
  PROVE  TA_GetFuncHandle(name) \in AllFunctions
<1> DEFINE letter == {i \in DOMAIN Letters : Letters[i] = SubSeq(name, 1, 1)}
           found == {f \in UNION {ToSet(Tables[i]) : i \in letter} : f.name = name}
<1>1. TA_GetFuncHandle(name) = IF found = {} THEN NoFunction ELSE CHOOSE f \in found : TRUE
  BY DEF TA_GetFuncHandle
<1>2. found \subseteq AllFunctions
  BY ParamHolderAssumption DEF AllFunctions
<1> HIDE DEF found
<1>3. QED
  BY <1>1, <1>2

\* The pointer of a caller is never taken for NULL.
LEMMA PointerIsNotNull ==
  ASSUME NEW source, NEW member \in Members
  PROVE  Pointer(source, member) \notin {NULL, Garbage}
  BY DEF Pointer, NULL, Garbage, None, Members, PriceMembers

-----------------------------------------------------------------------------
(* Memory. *)

LEMMA BlocksOf ==
  ASSUME NEW f
  PROVE  ToSet(Blocks(f)) = IF f.optInputs = <<>> THEN {"holder", "in", "out"}
                            ELSE {"holder", "in", "optIn", "out"}
<1>1. CASE f.optInputs = <<>>
  <2>1. Blocks(f) = <<"holder", "in", "out">>
    BY <1>1 DEF Blocks
  <2>2. QED
    BY <1>1, <2>1 DEF ToSet
<1>2. CASE f.optInputs # <<>>
  <2>1. Blocks(f) = <<"holder", "in", "optIn", "out">>
    BY <1>2 DEF Blocks
  <2>2. QED
    BY <1>2, <2>1 DEF ToSet
<1>3. QED
  BY <1>1, <1>2

\* A holder is freed with everything it has linked.
LEMMA HolderIsFreed ==
  ASSUME NEW f
  PROVE  ToSet(Blocks(f)) \ ParamHolderFree(ToSet(Blocks(f))) = {}
  BY BlocksOf DEF ParamHolderFree

\* An allocation that fails half-way frees what it had allocated.
LEMMA FailedAllocationIsFreed ==
  ASSUME NEW f, NEW k \in 1 .. Len(Blocks(f))
  PROVE  {Blocks(f)[j] : j \in 1 .. k} \ ParamHolderFree({Blocks(f)[j] : j \in 1 .. k}) = {}
<1>1. CASE f.optInputs = <<>>
  <2>1. Blocks(f) = <<"holder", "in", "out">>
    BY <1>1 DEF Blocks
  <2>2. QED
    BY <2>1 DEF ParamHolderFree
<1>2. CASE f.optInputs # <<>>
  <2>1. Blocks(f) = <<"holder", "in", "optIn", "out">>
    BY <1>2 DEF Blocks
  <2>2. QED
    BY <2>1 DEF ParamHolderFree
<1>3. QED
  BY <1>1, <1>2

-----------------------------------------------------------------------------
(* The steps of a caller. *)

\* What the holder answers depends on the holder alone.
LEMMA AnswersStay ==
  ASSUME UNCHANGED holder
  PROVE  /\ CallAnswer' = CallAnswer
         /\ LookbackAnswer(Arguments(funcInfo.function.lookback))'
              = LookbackAnswer(Arguments(funcInfo.function.lookback))
  BY DEF holder, CallAnswer, TA_Function, LookbackAnswer, Arguments, Read, Bound, Refuses, Params,
         checks

LEMMA InitInv == Init => IInv
  BY DEF Init, IInv, HeapExact, TableOK

LEMMA AllocatedStep ==
  ASSUME IInv, NEW f \in AllFunctions, CallerIsFree, f # NoFunction, Allocated(f)
  PROVE  IInv'
<1>1. /\ funcInfo = NoFunction /\ table = NoTable /\ f # NoFunction /\ funcInfo' = f
      /\ UNCHANGED <<called, lookback, table, halfSet>>
      /\ heap' = heap \cup ToSet(Blocks(f))
  BY DEF Allocated, CallerIsFree, results
<1>2. heap \ {"lost"} = {} /\ called = NotCalled /\ lookback = None /\ halfSet = {}
  BY <1>1 DEF IInv, HeapExact
<1>3. HeapExact' /\ TableOK'
  <2>1. "lost" \notin ToSet(Blocks(f))
    BY BlocksOf
  <2>2. heap' \ {"lost"} = ToSet(Blocks(f)) /\ ("lost" \in heap' => "lost" \in heap)
    BY <1>1, <1>2, <2>1
  <2>3. QED
    BY <1>1, <2>2 DEF IInv, HeapExact, TableOK
<1>4. /\ in' = [i \in Ins(f) |-> [m \in Members |-> NULL]]
      /\ optIn' = [i \in Opts(f) |->
                    <<OptMember(f.optInputs[i + 1]), f.optInputs[i + 1].defaultValue>>]
      /\ out' = [i \in Outs(f) |-> NULL]
      /\ inBitmap' = Ins(f) /\ outBitmap' = Outs(f)
      /\ asked' = [in |-> [i \in Ins(f) |-> None],
                   opt |-> [i \in Opts(f) |-> f.optInputs[i + 1].defaultValue],
                   out |-> [i \in Outs(f) |-> None]]
  BY DEF Allocated, Ins, Opts, Outs
<1>5. HolderShape'
  <2>1. \A i \in Opts(f) : f.optInputs[i + 1].defaultValue \in Int
    BY OptTyped
  <2>2. QED
    BY <1>1, <1>2, <1>4, <2>1 DEF HolderShape
<1>6. BitmapsExact'
  BY <1>1, <1>4 DEF BitmapsExact
<1>7. InputsExact'
  BY <1>1, <1>4 DEF InputsExact
<1>8. OthersExact'
  BY <1>1, <1>4 DEF OthersExact, optInputInfo, outputInfo
<1>9. AnswersFresh'
  BY <1>1, <1>2 DEF AnswersFresh
<1>10. QED
  BY <1>1, <1>3, <1>5, <1>6, <1>7, <1>8, <1>9 DEF IInv, HolderInv

LEMMA RefusedStep ==
  ASSUME IInv, NEW f \in AllFunctions, CallerIsFree, RefusedWithoutInputs(f)
  PROVE  IInv'
<1>1. /\ funcInfo = NoFunction /\ table = NoTable /\ heap' = heap \cup {"lost"}
      /\ UNCHANGED <<funcInfo, table, called, lookback, halfSet>>
  BY DEF RefusedWithoutInputs, CallerIsFree, holder, results
<1>2. ~EveryFunctionHasInputs
  BY DEF RefusedWithoutInputs, EveryFunctionHasInputs
<1>3. HeapExact' /\ TableOK'
  BY <1>1, <1>2 DEF IInv, HeapExact, TableOK, EveryFunctionHasInputs
<1>4. QED
  BY <1>1, <1>3 DEF IInv

LEMMA AllocStep ==
  ASSUME IInv, NEW f \in AllFunctions, TA_ParamHolderAlloc(f)
  PROVE  IInv'
  BY AllocatedStep, RefusedStep DEF TA_ParamHolderAlloc

LEMMA AllocFailsStep ==
  ASSUME IInv, NEW f, NEW k \in 0 .. 3, ParamHolderAllocFails(f, k)
  PROVE  IInv'
<1>1. funcInfo = NoFunction /\ table = NoTable
  BY DEF ParamHolderAllocFails, CallerIsFree
<1>2. heap \ {"lost"} = {}
  BY <1>1 DEF IInv, HeapExact
<1>3. heap' \ {"lost"} = {} /\ ("lost" \in heap' => "lost" \in heap)
  <2>1. CASE k = 0
    BY <1>2, <2>1 DEF ParamHolderAllocFails
  <2>2. CASE k # 0
    <3>1. k < Len(Blocks(f)) /\ Len(Blocks(f)) \in Nat
      BY DEF ParamHolderAllocFails, Blocks
    <3>2. k \in 1 .. Len(Blocks(f))
      BY <2>2, <3>1
    <3> DEFINE malloced == {Blocks(f)[j] : j \in 1 .. k}
    <3>3. heap' = (heap \cup malloced) \ ParamHolderFree(malloced)
      BY <2>2 DEF ParamHolderAllocFails
    <3>4. malloced \ ParamHolderFree(malloced) = {}
      BY <3>2, FailedAllocationIsFreed
    <3> HIDE DEF malloced
    <3>5. QED
      BY <1>2, <3>3, <3>4
  <2>3. QED
    BY <2>1, <2>2
<1>4. UNCHANGED <<funcInfo, table, called, lookback, halfSet>>
  BY DEF ParamHolderAllocFails, holder, results
<1>5. QED
  BY <1>1, <1>3, <1>4 DEF IInv, HeapExact, TableOK

LEMMA FreeStep ==
  ASSUME IInv, TA_ParamHolderFree
  PROVE  IInv'
<1>1. /\ funcInfo # NoFunction /\ funcInfo' = NoFunction /\ called' = NotCalled /\ lookback' = None
      /\ halfSet' = {} /\ UNCHANGED table
      /\ heap' = heap \ ParamHolderFree(ToSet(Blocks(funcInfo)))
  BY DEF TA_ParamHolderFree
<1>2. heap \ {"lost"} = ToSet(Blocks(funcInfo)) /\ table = NoTable
  BY <1>1 DEF IInv, HeapExact
<1>3. heap' \ {"lost"} = {} /\ ("lost" \in heap' => "lost" \in heap)
  BY <1>1, <1>2, HolderIsFreed
<1>4. QED
  BY <1>1, <1>2, <1>3 DEF IInv, HeapExact, TableOK

\* The string tables.
TableStep ==
  \/ TA_GroupTableAlloc
  \/ \E group \in ToSet(GroupString) \cup {"Unknown"} : TA_FuncTableAlloc(group)
  \/ FuncTableAllocFails
  \/ TA_GroupTableFree
  \/ TA_FuncTableFree

LEMMA StutterStep ==
  ASSUME IInv, UNCHANGED vars
  PROVE  IInv'
<1>1. UNCHANGED holder
  BY DEF vars
<1>2. /\ CallAnswer' = CallAnswer
      /\ LookbackAnswer(Arguments(funcInfo.function.lookback))'
           = LookbackAnswer(Arguments(funcInfo.function.lookback))
  BY <1>1, AnswersStay
<1>3. /\ UNCHANGED <<funcInfo, in, optIn, out, inBitmap, outBitmap>>
      /\ UNCHANGED <<called, lookback, heap, table, asked, halfSet>>
  BY DEF vars, holder, results
<1>4. HeapExact' /\ TableOK'
  BY <1>3 DEF IInv, HeapExact, TableOK
<1>5. ASSUME funcInfo # NoFunction PROVE HolderInv'
  <2>1. HolderShape' /\ BitmapsExact' /\ OthersExact'
    BY <1>3, <1>5 DEF IInv, HolderInv, HolderShape, BitmapsExact, OthersExact, optInputInfo,
                      outputInfo
  <2>2. InputsExact'
    BY <1>3, <1>5 DEF IInv, HolderInv, InputsExact, inputInfo
  <2>3. AnswersFresh'
    BY <1>2, <1>3, <1>5 DEF IInv, HolderInv, AnswersFresh
  <2>4. QED
    BY <2>1, <2>2, <2>3 DEF HolderInv
<1>6. QED
  BY <1>3, <1>4, <1>5 DEF IInv

LEMMA TablesStep ==
  ASSUME IInv, TableStep
  PROVE  IInv'
<1>1. CASE UNCHANGED vars
  BY <1>1, StutterStep
<1>2. CASE ~UNCHANGED vars
  <2>1. funcInfo = NoFunction /\ UNCHANGED <<funcInfo, called, lookback, halfSet>>
    <3>1. CASE TA_GroupTableAlloc
      BY <3>1 DEF TA_GroupTableAlloc, CallerIsFree, holder, results
    <3>2. CASE \E group \in ToSet(GroupString) \cup {"Unknown"} : TA_FuncTableAlloc(group)
      BY <1>2, <3>2 DEF TA_FuncTableAlloc, CallerIsFree, holder, results
    <3>3. CASE FuncTableAllocFails
      BY <3>3 DEF FuncTableAllocFails, CallerIsFree, holder, results
    <3>4. CASE TA_GroupTableFree \/ TA_FuncTableFree
      BY <1>2, <3>4 DEF TA_GroupTableFree, TA_FuncTableFree, TableFreed, IInv, HeapExact, holder,
                        results
    <3>5. QED
      BY <3>1, <3>2, <3>3, <3>4 DEF TableStep
  <2>2. HeapExact' /\ TableOK'
    <3>1. CASE TA_GroupTableAlloc
      <4>1. /\ table = NoTable /\ heap' = heap \cup {"table"}
            /\ table' = [magic |-> "group", group |-> None, string |-> GroupString]
        BY <3>1 DEF TA_GroupTableAlloc, CallerIsFree
      <4>2. table' # NoTable
        BY <4>1 DEF NoTable, None
      <4>3. QED
        BY <2>1, <4>1, <4>2, ParamHolderAssumption DEF IInv, HeapExact, TableOK
    <3>2. CASE \E group \in ToSet(GroupString) \cup {"Unknown"} : TA_FuncTableAlloc(group)
      <4>1. PICK group, groupId : /\ groupId \in getGroupId(group) /\ table = NoTable
                                  /\ table' = [magic |-> "func", group |-> group,
                                               string |-> PerGroup[groupId]]
                                  /\ heap' = heap \cup {"table"} \cup Strings(PerGroup[groupId])
        BY <1>2, <3>2 DEF TA_FuncTableAlloc, CallerIsFree
      <4>2. group \in ToSet(GroupString) /\ PerGroup[groupId] \in Seq(STRING)
        BY <4>1, ParamHolderAssumption DEF getGroupId, ToSet
      <4>3. table' # NoTable
        BY <4>1 DEF NoTable, None
      <4> DEFINE blocks == {"table"} \cup Strings(PerGroup[groupId])
      <4>4. "lost" \notin blocks
        BY DEF Strings
      <4>5. heap' \ {"lost"} = blocks /\ ("lost" \in heap' => ~EveryFunctionHasInputs)
        <5>1. heap \ {"lost"} = {} /\ ("lost" \in heap => ~EveryFunctionHasInputs)
          BY <2>1, <4>1 DEF IInv, HeapExact
        <5>2. heap' = heap \cup blocks
          BY <4>1
        <5> HIDE DEF blocks
        <5>3. QED
          BY <4>4, <5>1, <5>2
      <4>6. TableOK'
        BY <4>1, <4>2 DEF TableOK
      <4>7. HeapExact'
        BY <2>1, <4>1, <4>3, <4>5 DEF HeapExact, EveryFunctionHasInputs
      <4>8. QED
        BY <4>6, <4>7
    <3>3. CASE FuncTableAllocFails
      BY <2>1, <3>3 DEF FuncTableAllocFails, FuncTableFree, CallerIsFree, IInv, HeapExact, TableOK
    <3>4. CASE TA_GroupTableFree \/ TA_FuncTableFree
      <4>1. table # NoTable /\ table' = NoTable
        BY <1>2, <3>4 DEF TA_GroupTableFree, TA_FuncTableFree, TableFreed
      <4>2. \/ table.magic = "group" /\ heap' = heap \ {"table"}
            \/ table.magic = "func" /\ heap' = heap \ FuncTableFree(Strings(table.string))
        BY <1>2, <3>4 DEF TA_GroupTableFree, TA_FuncTableFree, TableFreed
      <4>3. TableOK'
        BY <4>1 DEF TableOK
      <4>4. /\ "lost" \in heap => ~EveryFunctionHasInputs
            /\ heap \ {"lost"} =
                 IF table.magic = "func" THEN {"table"} \cup Strings(table.string) ELSE {"table"}
        BY <2>1, <4>1 DEF IInv, HeapExact
      <4>5. Strings(table.string) \subseteq {"strings"}
        BY DEF Strings
      <4>6. heap' \ {"lost"} = {} /\ ("lost" \in heap' => ~EveryFunctionHasInputs)
        BY <4>2, <4>4, <4>5 DEF FuncTableFree
      <4>7. QED
        BY <2>1, <4>1, <4>3, <4>6 DEF HeapExact, EveryFunctionHasInputs
    <3>5. QED
      BY <3>1, <3>2, <3>3, <3>4 DEF TableStep
  <2>3. QED
    BY <2>1, <2>2 DEF IInv
<1>3. QED
  BY <1>1, <1>2

\* A setter that succeeds makes the caller forget the last answers.
LEMMA NewParameterStep ==
  ASSUME IInv, funcInfo # NoFunction, NewParameter,
         HolderShape', BitmapsExact', InputsExact', OthersExact'
  PROVE  IInv'
<1>1. called' = NotCalled /\ lookback' = None /\ UNCHANGED <<funcInfo, heap, table>>
  BY DEF NewParameter
<1>2. HeapExact' /\ TableOK'
  BY <1>1 DEF IInv, HeapExact, TableOK
<1>3. AnswersFresh'
  BY <1>1 DEF AnswersFresh
<1>4. QED
  BY <1>1, <1>2, <1>3 DEF IInv, HolderInv

\* The components of an input that takes one series.
LEMMA OneComponent ==
  ASSUME NEW f \in AllFunctions, NEW i \in Ins(f), NEW type, NEW member,
         <<type, member>> \in {<<"Real", "real">>, <<"Integer", "integer">>},
         f.inputs[i + 1].type = type
  PROVE  f.inputs[i + 1].components = <<member>> /\ member \in Members
  BY InputTyped DEF Members

LEMMA SetInputStep ==
  ASSUME IInv, NEW i \in 0 .. nbInput, NEW source \in SomeSources, NEW type, NEW member,
         <<type, member>> \in {<<"Real", "real">>, <<"Integer", "integer">>},
         SetInputParam(i, type, member, source)
  PROVE  IInv'
<1>1. CASE Refused
  BY <1>1, StutterStep DEF Refused
<1>2. CASE ~Refused
  <2>1. /\ funcInfo # NoFunction /\ source # None /\ AcceptsInput(i, type)
        /\ in' = [in EXCEPT ![i][member] = Pointer(source, member)]
        /\ inBitmap' = inBitmap \ {i}
        /\ asked' = [asked EXCEPT !.in[i] = source]
        /\ NewParameter
        /\ UNCHANGED <<optIn, out, outBitmap, halfSet>>
    BY <1>2 DEF SetInputParam
  <2>2. HolderShape /\ BitmapsExact /\ InputsExact /\ OthersExact
    BY <2>1 DEF IInv, HolderInv
  <2>3. funcInfo' = funcInfo
    BY <2>1 DEF NewParameter
  <2>4. funcInfo \in AllFunctions
    BY <2>2 DEF HolderShape
  <2>5. i \in Ins(funcInfo) /\ inputInfo(i).type = type
    BY <2>1, <2>4, FunctionTyped DEF AcceptsInput, nbInput, Ins
  <2>6. inputInfo(i).components = <<member>> /\ member \in Members
    BY <2>4, <2>5, OneComponent DEF inputInfo
  <2>7. source \in Sources
    BY <2>1 DEF SomeSources
  <2>8. /\ DOMAIN in' = DOMAIN in
        /\ in'[i] = [in[i] EXCEPT ![member] = Pointer(source, member)]
        /\ \A j \in Ins(funcInfo) : j # i => in'[j] = in[j]
    BY <2>1, <2>2, <2>5 DEF HolderShape
  <2>9. /\ asked'.opt = asked.opt /\ asked'.out = asked.out
        /\ asked'.in = [asked.in EXCEPT ![i] = source]
        /\ asked' \in [in : [Ins(funcInfo) -> Sources \cup {None}], opt : [Opts(funcInfo) -> Int],
                       out : [Outs(funcInfo) -> Outputs \cup {None}]]
    BY <2>1, <2>2, <2>5, <2>7 DEF HolderShape
  <2>10. asked'.in[i] = source /\ \A j \in Ins(funcInfo) : j # i => asked'.in[j] = asked.in[j]
    BY <2>2, <2>5, <2>9 DEF HolderShape
  <2>11. HolderShape'
    <3>1. \A j \in DOMAIN in' : DOMAIN in'[j] = Members
      BY <2>2, <2>5, <2>6, <2>8 DEF HolderShape
    <3>2. QED
      BY <2>1, <2>2, <2>3, <2>8, <2>9, <3>1 DEF HolderShape
  <2>12. BitmapsExact'
    BY <2>1, <2>2, <2>3, <2>7, <2>9, <2>10, ParamHolderAssumption DEF BitmapsExact
  <2>13. InputsExact'
    <3> SUFFICES ASSUME NEW j \in Ins(funcInfo), NEW n \in DOMAIN inputInfo(j).components
                 PROVE  /\ j \notin inBitmap' =>
                              in'[j][inputInfo(j).components[n]] \notin {NULL, Garbage}
                        /\ j \notin inBitmap' \cup halfSet' =>
                              in'[j][inputInfo(j).components[n]]
                                = Pointer(asked'.in[j], inputInfo(j).components[n])
      BY <2>3 DEF InputsExact, inputInfo
    <3>1. CASE j = i
      <4>1. inputInfo(j).components[n] = member
        BY <2>6, <3>1
      <4>2. in'[j][member] = Pointer(source, member)
        BY <2>2, <2>5, <2>6, <2>8, <3>1 DEF HolderShape
      <4>3. QED
        BY <2>6, <2>10, <3>1, <4>1, <4>2, PointerIsNotNull
    <3>2. CASE j # i
      BY <2>1, <2>2, <2>8, <2>10, <3>2 DEF InputsExact
    <3>3. QED
      BY <3>1, <3>2
  <2>14. OthersExact'
    BY <2>1, <2>2, <2>3, <2>9 DEF OthersExact, optInputInfo, outputInfo
  <2>15. QED
    BY <2>1, <2>11, <2>12, <2>13, <2>14, NewParameterStep
<1>3. QED
  BY <1>1, <1>2

LEMMA SetOptStep ==
  ASSUME IInv, NEW i \in 0 .. nbOptInput, NEW value \in Int, NEW types, NEW member,
         <<types, member>> \in {<<{"IntegerRange", "IntegerList"}, "integer">>,
                                <<{"RealRange", "RealList"}, "real">>},
         SetOptInputParam(i, types, member, value)
  PROVE  IInv'
<1>1. CASE Refused
  BY <1>1, StutterStep DEF Refused
<1>2. CASE ~Refused
  <2>1. /\ funcInfo # NoFunction /\ AcceptsOpt(i, types)
        /\ optIn' = [optIn EXCEPT ![i] = <<member, value>>]
        /\ asked' = [asked EXCEPT !.opt[i] = value]
        /\ NewParameter
        /\ UNCHANGED <<in, out, inBitmap, outBitmap, halfSet>>
    BY <1>2 DEF SetOptInputParam
  <2>2. HolderShape /\ BitmapsExact /\ InputsExact /\ OthersExact
    BY <2>1 DEF IInv, HolderInv
  <2>3. funcInfo' = funcInfo
    BY <2>1 DEF NewParameter
  <2>4. funcInfo \in AllFunctions
    BY <2>2 DEF HolderShape
  <2>5. i \in Opts(funcInfo) /\ optInputInfo(i).type \in types
    BY <2>1, <2>4, FunctionTyped DEF AcceptsOpt, nbOptInput, Opts
  <2>6. OptMember(optInputInfo(i)) = member
    BY <2>4, <2>5, OptTyped DEF OptMember, optInputInfo
  <2>7. /\ DOMAIN optIn' = DOMAIN optIn /\ optIn'[i] = <<member, value>>
        /\ \A j \in Opts(funcInfo) : j # i => optIn'[j] = optIn[j]
    BY <2>1, <2>2, <2>5 DEF HolderShape
  <2>8. /\ asked'.in = asked.in /\ asked'.out = asked.out
        /\ asked'.opt = [asked.opt EXCEPT ![i] = value]
        /\ asked' \in [in : [Ins(funcInfo) -> Sources \cup {None}], opt : [Opts(funcInfo) -> Int],
                       out : [Outs(funcInfo) -> Outputs \cup {None}]]
    BY <2>1, <2>2, <2>5 DEF HolderShape
  <2>9. asked'.opt[i] = value /\ \A j \in Opts(funcInfo) : j # i => asked'.opt[j] = asked.opt[j]
    BY <2>2, <2>5, <2>8 DEF HolderShape
  <2>10. HolderShape'
    BY <2>1, <2>2, <2>3, <2>7, <2>8 DEF HolderShape
  <2>11. BitmapsExact'
    BY <2>1, <2>2, <2>3, <2>8 DEF BitmapsExact
  <2>12. InputsExact'
    BY <2>1, <2>2, <2>3, <2>8 DEF InputsExact, inputInfo
  <2>13. OthersExact'
    <3>1. \A j \in Opts(funcInfo) : optIn'[j] = <<OptMember(optInputInfo(j)), asked'.opt[j]>>
      BY <2>2, <2>6, <2>7, <2>9 DEF OthersExact
    <3>2. QED
      BY <2>1, <2>2, <2>3, <2>8, <3>1 DEF OthersExact, optInputInfo, outputInfo
  <2>14. QED
    BY <2>1, <2>10, <2>11, <2>12, <2>13, NewParameterStep
<1>3. QED
  BY <1>1, <1>2

LEMMA SetOutputStep ==
  ASSUME IInv, NEW i \in 0 .. nbOutput, NEW pointer \in SomeOutputs, NEW type, NEW member,
         <<type, member>> \in {<<"Real", "real">>, <<"Integer", "integer">>},
         SetOutputParam(i, type, member, pointer)
  PROVE  IInv'
<1>1. CASE Refused
  BY <1>1, StutterStep DEF Refused
<1>2. CASE ~Refused
  <2>1. /\ funcInfo # NoFunction /\ pointer # None /\ AcceptsOutput(i, type)
        /\ out' = [out EXCEPT ![i] = <<member, pointer>>]
        /\ outBitmap' = outBitmap \ {i}
        /\ asked' = [asked EXCEPT !.out[i] = pointer]
        /\ NewParameter
        /\ UNCHANGED <<in, optIn, inBitmap, halfSet>>
    BY <1>2 DEF SetOutputParam
  <2>2. HolderShape /\ BitmapsExact /\ InputsExact /\ OthersExact
    BY <2>1 DEF IInv, HolderInv
  <2>3. funcInfo' = funcInfo
    BY <2>1 DEF NewParameter
  <2>4. funcInfo \in AllFunctions
    BY <2>2 DEF HolderShape
  <2>5. i \in Outs(funcInfo) /\ outputInfo(i).type = type
    BY <2>1, <2>4, FunctionTyped DEF AcceptsOutput, nbOutput, Outs
  <2>6. OutMember(outputInfo(i)) = member
    BY <2>5 DEF OutMember
  <2>7. pointer \in Outputs
    BY <2>1 DEF SomeOutputs
  <2>8. /\ DOMAIN out' = DOMAIN out /\ out'[i] = <<member, pointer>>
        /\ \A j \in Outs(funcInfo) : j # i => out'[j] = out[j]
    BY <2>1, <2>2, <2>5 DEF HolderShape
  <2>9. /\ asked'.in = asked.in /\ asked'.opt = asked.opt
        /\ asked'.out = [asked.out EXCEPT ![i] = pointer]
        /\ asked' \in [in : [Ins(funcInfo) -> Sources \cup {None}], opt : [Opts(funcInfo) -> Int],
                       out : [Outs(funcInfo) -> Outputs \cup {None}]]
    BY <2>1, <2>2, <2>5, <2>7 DEF HolderShape
  <2>10. asked'.out[i] = pointer /\ \A j \in Outs(funcInfo) : j # i => asked'.out[j] = asked.out[j]
    BY <2>2, <2>5, <2>9 DEF HolderShape
  <2>11. HolderShape'
    BY <2>1, <2>2, <2>3, <2>8, <2>9 DEF HolderShape
  <2>12. BitmapsExact'
    BY <2>1, <2>2, <2>3, <2>7, <2>9, <2>10, ParamHolderAssumption DEF BitmapsExact
  <2>13. InputsExact'
    BY <2>1, <2>2, <2>3, <2>9 DEF InputsExact, inputInfo
  <2>14. OthersExact'
    <3>1. \A j \in Outs(funcInfo) :
             out'[j] = IF asked'.out[j] = None THEN NULL
                       ELSE <<OutMember(outputInfo(j)), asked'.out[j]>>
      BY <2>1, <2>2, <2>6, <2>8, <2>10 DEF OthersExact
    <3>2. \A j \in Opts(funcInfo) : optIn'[j] = <<OptMember(optInputInfo(j)), asked'.opt[j]>>
      BY <2>1, <2>2, <2>9 DEF OthersExact
    <3>3. /\ \A j : optInputInfo(j)' = optInputInfo(j)
          /\ \A j : outputInfo(j)' = outputInfo(j)
      BY <2>3 DEF optInputInfo, outputInfo
    <3>4. QED
      BY <2>3, <3>1, <3>2, <3>3 DEF OthersExact
  <2>15. QED
    BY <2>1, <2>11, <2>12, <2>13, <2>14, NewParameterStep
<1>3. QED
  BY <1>1, <1>2

\* A price setter that meets no NULL stores every component.
LEMMA AllAreStored ==
  ASSUME NEW components \in Seq(Members), NEW missing, Complete(components, missing)
  PROVE  \A n \in DOMAIN components : components[n] \in Stored(components, missing)
<1>1. \A n \in DOMAIN components : components[n] # missing
  BY DEF Complete, ToSet
<1>2. DOMAIN components = 1 .. Len(components) /\ Len(components) \in Nat
  OBVIOUS
<1>3. ASSUME NEW n \in DOMAIN components
      PROVE  n \in 1 .. Len(components) /\ \A j \in 1 .. n : components[j] # missing
  BY <1>1, <1>2
<1>4. QED
  BY <1>2, <1>3 DEF Stored

LEMMA SetPriceStep ==
  ASSUME IInv, NEW i \in 0 .. nbInput, NEW source \in Sources, NEW missing,
         TA_SetInputParamPricePtr(i, source, missing)
  PROVE  IInv'
<1>1. CASE Refused
  BY <1>1, StutterStep DEF Refused
<1>2. CASE ~Refused
  <2> DEFINE components == inputInfo(i).components
             stored == Stored(components, missing)
             complete == Complete(components, missing)
  <2>1. /\ funcInfo # NoFunction /\ AcceptsInput(i, "Price")
        /\ in' = [in EXCEPT ![i] = [m \in Members |->
                    IF m \in stored THEN Pointer(source, m) ELSE in[i][m]]]
        /\ NewParameter
        /\ UNCHANGED <<optIn, out, outBitmap>>
    BY <1>2 DEF TA_SetInputParamPricePtr
  <2>2. complete => /\ inBitmap' = inBitmap \ {i}
                    /\ asked' = [asked EXCEPT !.in[i] = source]
                    /\ halfSet' = halfSet \ {i}
    BY <1>2 DEF TA_SetInputParamPricePtr
  <2>3. ~complete => /\ halfSet' = IF stored = {} THEN halfSet ELSE halfSet \cup {i}
                     /\ UNCHANGED <<inBitmap, asked>>
    BY <1>2 DEF TA_SetInputParamPricePtr
  <2>4. HolderShape /\ BitmapsExact /\ InputsExact /\ OthersExact
    BY <2>1 DEF IInv, HolderInv
  <2>5. funcInfo' = funcInfo
    BY <2>1 DEF NewParameter
  <2>6. funcInfo \in AllFunctions
    BY <2>4 DEF HolderShape
  <2>7. i \in Ins(funcInfo)
    BY <2>1, <2>6, FunctionTyped DEF AcceptsInput, nbInput, Ins
  <2>8. components \in Seq(Members)
    BY <2>6, <2>7, InputTyped DEF inputInfo
  <2>9. complete => \A n \in DOMAIN components : components[n] \in stored
    BY <2>8, AllAreStored
  <2>10. \A n \in DOMAIN components : components[n] \in Members
    BY <2>8, ElementTyped, Zenon
  <2> HIDE DEF stored, complete
  <2>11. /\ DOMAIN in' = DOMAIN in
         /\ in'[i] = [m \in Members |-> IF m \in stored THEN Pointer(source, m) ELSE in[i][m]]
         /\ \A j \in Ins(funcInfo) : j # i => in'[j] = in[j]
    BY <2>1, <2>4, <2>7 DEF HolderShape
  <2>12. /\ asked'.opt = asked.opt /\ asked'.out = asked.out
         /\ asked'.in = IF complete THEN [asked.in EXCEPT ![i] = source] ELSE asked.in
         /\ asked' \in [in : [Ins(funcInfo) -> Sources \cup {None}], opt : [Opts(funcInfo) -> Int],
                        out : [Outs(funcInfo) -> Outputs \cup {None}]]
    BY <2>2, <2>3, <2>4, <2>7 DEF HolderShape
  <2>13. /\ asked'.in[i] = IF complete THEN source ELSE asked.in[i]
         /\ \A j \in Ins(funcInfo) : j # i => asked'.in[j] = asked.in[j]
    BY <2>4, <2>7, <2>12 DEF HolderShape
  <2>14. HolderShape'
    <3>1. \A j \in DOMAIN in' : DOMAIN in'[j] = Members
      BY <2>4, <2>7, <2>11 DEF HolderShape
    <3>2. halfSet' \subseteq Ins(funcInfo)
      BY <2>2, <2>3, <2>4, <2>7 DEF HolderShape
    <3>3. QED
      BY <2>1, <2>4, <2>5, <2>11, <2>12, <3>1, <3>2 DEF HolderShape
  <2>15. BitmapsExact'
    <3>1. CASE complete
      BY <2>1, <2>2, <2>4, <2>5, <2>12, <2>13, <3>1, ParamHolderAssumption DEF BitmapsExact
    <3>2. CASE ~complete
      BY <2>1, <2>3, <2>4, <2>5, <3>2 DEF BitmapsExact
    <3>3. QED
      BY <3>1, <3>2
  <2>16. InputsExact'
    <3> SUFFICES ASSUME NEW j \in Ins(funcInfo), NEW n \in DOMAIN inputInfo(j).components
                 PROVE  /\ j \notin inBitmap' =>
                              in'[j][inputInfo(j).components[n]] \notin {NULL, Garbage}
                        /\ j \notin inBitmap' \cup halfSet' =>
                              in'[j][inputInfo(j).components[n]]
                                = Pointer(asked'.in[j], inputInfo(j).components[n])
      BY <2>5 DEF InputsExact, inputInfo
    <3>1. CASE j = i
      <4> DEFINE member == components[n]
      <4>1. member \in Members
        BY <2>10, <3>1
      <4>2. in'[i][member] = IF member \in stored THEN Pointer(source, member) ELSE in[i][member]
        BY <2>11, <4>1
      <4>3. Pointer(source, member) \notin {NULL, Garbage}
        BY <4>1, PointerIsNotNull
      <4>4. /\ i \notin inBitmap => in[i][member] \notin {NULL, Garbage}
            /\ i \notin inBitmap \cup halfSet => in[i][member] = Pointer(asked.in[i], member)
        BY <2>4, <2>7, <3>1 DEF InputsExact
      <4>5. complete => member \in stored
        BY <2>9, <3>1
      <4> HIDE DEF member
      <4>6. /\ i \notin inBitmap' => in'[i][member] \notin {NULL, Garbage}
            /\ i \notin inBitmap' \cup halfSet' => in'[i][member] = Pointer(asked'.in[i], member)
        <5>1. CASE complete
          BY <2>13, <4>2, <4>3, <4>5, <5>1
        <5>2. CASE ~complete /\ stored = {}
          BY <2>3, <2>13, <4>2, <4>4, <5>2
        <5>3. CASE ~complete /\ stored # {}
          BY <2>3, <4>2, <4>3, <4>4, <5>3
        <5>4. QED
          BY <5>1, <5>2, <5>3
      <4>7. QED
        BY <3>1, <4>6 DEF member
    <3>2. CASE j # i
      <4>1. /\ j \in inBitmap' <=> j \in inBitmap
            /\ j \in halfSet' <=> j \in halfSet
        BY <2>2, <2>3, <3>2
      <4>2. QED
        BY <2>4, <2>11, <2>13, <3>2, <4>1 DEF InputsExact
    <3>3. QED
      BY <3>1, <3>2
  <2>17. OthersExact'
    BY <2>1, <2>4, <2>5, <2>12 DEF OthersExact, optInputInfo, outputInfo
  <2>18. QED
    BY <2>1, <2>14, <2>15, <2>16, <2>17, NewParameterStep
<1>3. QED
  BY <1>1, <1>2

\* The two calls leave the holder alone.
LEMMA CallsStep ==
  ASSUME IInv, TA_GetLookback \/ TA_CallFunc
  PROVE  IInv'
<1>1. funcInfo # NoFunction /\ UNCHANGED holder /\ UNCHANGED <<heap, table, asked, halfSet>>
  BY DEF TA_GetLookback, TA_CallFunc
<1>2. /\ called' = called \/ called' = CallAnswer
      /\ lookback' = lookback \/ lookback' = LookbackAnswer(Arguments(funcInfo.function.lookback))
  BY DEF TA_GetLookback, TA_CallFunc
<1>3. /\ CallAnswer' = CallAnswer
      /\ LookbackAnswer(Arguments(funcInfo.function.lookback))'
           = LookbackAnswer(Arguments(funcInfo.function.lookback))
  BY <1>1, AnswersStay
<1>4. UNCHANGED <<funcInfo, in, optIn, out, inBitmap, outBitmap>>
  BY <1>1 DEF holder
<1>5. HeapExact' /\ TableOK'
  BY <1>1, <1>4 DEF IInv, HeapExact, TableOK
<1>6. HolderShape' /\ BitmapsExact' /\ OthersExact'
  BY <1>1, <1>4 DEF IInv, HolderInv, HolderShape, BitmapsExact, OthersExact, optInputInfo,
                    outputInfo
<1>7. InputsExact'
  BY <1>1, <1>4 DEF IInv, HolderInv, InputsExact, inputInfo
<1>8. AnswersFresh'
  BY <1>1, <1>2, <1>3 DEF IInv, HolderInv, AnswersFresh
<1>9. QED
  BY <1>1, <1>4, <1>5, <1>6, <1>7, <1>8 DEF IInv, HolderInv

LEMMA NextInv ==
  ASSUME IInv, [Next]_vars
  PROVE  IInv'
<1>1. CASE CallerIsFree /\ \E name \in SomeNames : LET handle == TA_GetFuncHandle(name) IN
              TA_ParamHolderAlloc(handle) \/ \E k \in 0 .. 3 : ParamHolderAllocFails(handle, k)
  <2>1. PICK name \in SomeNames :
           \/ TA_ParamHolderAlloc(TA_GetFuncHandle(name))
           \/ \E k \in 0 .. 3 : ParamHolderAllocFails(TA_GetFuncHandle(name), k)
    BY <1>1
  <2>2. CASE TA_ParamHolderAlloc(TA_GetFuncHandle(name))
    <3>1. TA_GetFuncHandle(name) # NoFunction
      BY <2>2 DEF TA_ParamHolderAlloc
    <3>2. TA_GetFuncHandle(name) \in AllFunctions
      BY <3>1, HandleFound
    <3>3. QED
      BY <2>2, <3>2, AllocStep
  <2>3. CASE \E k \in 0 .. 3 : ParamHolderAllocFails(TA_GetFuncHandle(name), k)
    BY <2>3, AllocFailsStep
  <2>4. QED
    BY <2>1, <2>2, <2>3
<1>2. CASE TA_ParamHolderFree
  BY <1>2, FreeStep
<1>3. CASE TableStep
  BY <1>3, TablesStep
<1>4. CASE SetInputs
  <2>1. PICK i \in 0 .. nbInput :
           \/ \E source \in SomeSources : TA_SetInputParamIntegerPtr(i, source)
           \/ \E source \in SomeSources : TA_SetInputParamRealPtr(i, source)
           \/ \E source \in Sources, missing \in PriceMembers \cup {None} :
                 TA_SetInputParamPricePtr(i, source, missing)
    BY <1>4 DEF SetInputs
  <2>2. CASE \E source \in SomeSources : TA_SetInputParamIntegerPtr(i, source)
    BY <2>2, SetInputStep DEF TA_SetInputParamIntegerPtr
  <2>3. CASE \E source \in SomeSources : TA_SetInputParamRealPtr(i, source)
    BY <2>3, SetInputStep DEF TA_SetInputParamRealPtr
  <2>4. CASE \E source \in Sources, missing \in PriceMembers \cup {None} :
                TA_SetInputParamPricePtr(i, source, missing)
    BY <2>4, SetPriceStep
  <2>5. QED
    BY <2>1, <2>2, <2>3, <2>4
<1>5. CASE funcInfo # NoFunction /\ SetOpts
  <2>1. PICK i \in 0 .. nbOptInput : \E value \in OptValues(i) :
           TA_SetOptInputParamInteger(i, value) \/ TA_SetOptInputParamReal(i, value)
    BY <1>5 DEF SetOpts
  <2>2. PICK value \in OptValues(i) :
           TA_SetOptInputParamInteger(i, value) \/ TA_SetOptInputParamReal(i, value)
    BY <2>1
  <2>3. value \in Int
    <3>1. CASE i >= nbOptInput
      BY <2>2, <3>1 DEF OptValues
    <3>2. CASE ~(i >= nbOptInput)
      <4>1. funcInfo \in AllFunctions
        BY <1>5 DEF IInv, HolderInv, HolderShape
      <4>2. i \in Opts(funcInfo)
        BY <3>2, <4>1, FunctionTyped DEF Opts, nbOptInput
      <4>3. /\ optInputInfo(i).defaultValue \in Int
            /\ optInputInfo(i).low \in Int /\ optInputInfo(i).high \in Int
        BY <4>1, <4>2, OptTyped DEF optInputInfo
      <4>4. value \in {optInputInfo(i).defaultValue} \cup
                      {TA_DEFAULT, optInputInfo(i).low, optInputInfo(i).low - 1,
                       optInputInfo(i).high, optInputInfo(i).high + 1}
        BY <2>2, <3>2 DEF OptValues
      <4>5. QED
        BY <4>3, <4>4 DEF TA_DEFAULT
    <3>3. QED
      BY <3>1, <3>2
  <2>4. CASE TA_SetOptInputParamInteger(i, value)
    BY <2>3, <2>4, SetOptStep DEF TA_SetOptInputParamInteger
  <2>5. CASE TA_SetOptInputParamReal(i, value)
    BY <2>3, <2>5, SetOptStep DEF TA_SetOptInputParamReal
  <2>6. QED
    BY <2>2, <2>4, <2>5
<1>6. CASE SetOutputs
  <2>1. PICK i \in 0 .. nbOutput, pointer \in SomeOutputs :
           TA_SetOutputParamIntegerPtr(i, pointer) \/ TA_SetOutputParamRealPtr(i, pointer)
    BY <1>6 DEF SetOutputs
  <2>2. CASE TA_SetOutputParamIntegerPtr(i, pointer)
    BY <2>2, SetOutputStep DEF TA_SetOutputParamIntegerPtr
  <2>3. CASE TA_SetOutputParamRealPtr(i, pointer)
    BY <2>3, SetOutputStep DEF TA_SetOutputParamRealPtr
  <2>4. QED
    BY <2>1, <2>2, <2>3
<1>7. CASE TA_GetLookback \/ TA_CallFunc
  BY <1>7, CallsStep
<1>8. CASE UNCHANGED vars
  BY <1>8, StutterStep
<1>9. QED
  BY <1>1, <1>2, <1>3, <1>4, <1>5, <1>6, <1>7, <1>8 DEF Next, TableStep

\* The invariant holds of every holder and table a caller can have, for any tables of functions.
THEOREM Invariance == Spec => []IInv
<1>1. Init => IInv
  BY InitInv
<1>2. IInv /\ [Next]_vars => IInv'
  BY NextInv
<1>3. QED
  BY <1>1, <1>2, PTL DEF Spec

-----------------------------------------------------------------------------
(* What a frame reads. *)

LEMMA FrameTyped ==
  ASSUME NEW f \in AllFunctions
  PROVE  /\ f.function.parameters \in Seq(STRING)
         /\ f.function.call \in Seq(Places) /\ f.function.lookback \in Seq(Places)
         /\ f.function.checks \in Seq([low : Int, high : Int, default : Int])
  BY FunctionTyped DEF FuncDefs

LEMMA ZipOf ==
  ASSUME NEW S, NEW T, NEW s \in Seq(S), NEW t \in Seq(T)
  PROVE  ToSet(Zip(s, t)) = {<<s[k], t[k]>> : k \in DOMAIN s \cap DOMAIN t}
<1> DEFINE l == IF Len(s) <= Len(t) THEN Len(s) ELSE Len(t)
<1>1. Zip(s, t) = [k \in 1 .. l |-> <<s[k], t[k]>>]
  BY DEF Zip
<1>2. DOMAIN s \cap DOMAIN t = 1 .. l
  OBVIOUS
<1> HIDE DEF l
<1>3. QED
  BY <1>1, <1>2 DEF ToSet

\* Where a declared parameter is.
LEMMA PlaceDeclared ==
  ASSUME NEW f \in AllFunctions, NEW d \in DeclaredPlaces(f)
  PROVE  \/ \E i \in Ins(f) : \E n \in DOMAIN f.inputs[i + 1].components :
               d[2] = <<"in", i, f.inputs[i + 1].components[n]>>
         \/ \E i \in Opts(f) : d[2] = <<"optIn", i, OptMember(f.optInputs[i + 1])>>
         \/ \E i \in Outs(f) : d[2] = <<"out", i, OutMember(f.outputs[i + 1])>>
<1>1. CASE \E k \in DOMAIN f.inputs : \E n \in DOMAIN f.inputs[k].components :
              d = <<f.inputs[k].parameters[n], <<"in", k - 1, f.inputs[k].components[n]>>>>
  <2>1. PICK k \in DOMAIN f.inputs : \E n \in DOMAIN f.inputs[k].components :
              d = <<f.inputs[k].parameters[n], <<"in", k - 1, f.inputs[k].components[n]>>>>
    BY <1>1
  <2>2. PICK n \in DOMAIN f.inputs[k].components :
              d = <<f.inputs[k].parameters[n], <<"in", k - 1, f.inputs[k].components[n]>>>>
    BY <2>1
  <2>3. PICK i \in Ins(f) : i = k - 1 /\ i + 1 = k
    BY FunctionTyped DEF Ins
  <2>4. n \in DOMAIN f.inputs[i + 1].components
        /\ d[2] = <<"in", i, f.inputs[i + 1].components[n]>>
    BY <2>2, <2>3
  <2>5. QED
    BY <2>3, <2>4
<1>2. CASE \E k \in DOMAIN f.optInputs :
              d = <<f.optInputs[k].paramName, <<"optIn", k - 1, OptMember(f.optInputs[k])>>>>
  <2>1. PICK k \in DOMAIN f.optInputs :
              d = <<f.optInputs[k].paramName, <<"optIn", k - 1, OptMember(f.optInputs[k])>>>>
    BY <1>2
  <2>2. k - 1 \in Opts(f) /\ (k - 1) + 1 = k
    BY FunctionTyped DEF Opts
  <2>3. QED
    BY <2>1, <2>2
<1>3. CASE \E k \in DOMAIN f.outputs :
              d = <<f.outputs[k].paramName, <<"out", k - 1, OutMember(f.outputs[k])>>>>
  <2>1. PICK k \in DOMAIN f.outputs :
              d = <<f.outputs[k].paramName, <<"out", k - 1, OutMember(f.outputs[k])>>>>
    BY <1>3
  <2>2. k - 1 \in Outs(f) /\ (k - 1) + 1 = k
    BY FunctionTyped DEF Outs
  <2>3. QED
    BY <2>1, <2>2
<1>4. QED
  BY <1>1, <1>2, <1>3 DEF DeclaredPlaces

\* Once the bitmaps are empty, a frame reads no NULL, and reads what was asked for unless a refused
\* setter has written to it.
LEMMA ReadsWhatIsAsked ==
  ASSUME IInv, funcInfo # NoFunction, inBitmap = {}, outBitmap = {},
         NEW d \in DeclaredPlaces(funcInfo)
  PROVE  Read(d[2]) \notin {NULL, Garbage} /\ (halfSet = {} => Read(d[2]) = Asked(d[2]))
<1>1. funcInfo \in AllFunctions /\ BitmapsExact /\ InputsExact /\ OthersExact
  BY DEF IInv, HolderInv, HolderShape
<1>2. CASE \E i \in Ins(funcInfo) : \E n \in DOMAIN funcInfo.inputs[i + 1].components :
              d[2] = <<"in", i, funcInfo.inputs[i + 1].components[n]>>
  <2>1. PICK i \in Ins(funcInfo) : \E n \in DOMAIN funcInfo.inputs[i + 1].components :
              d[2] = <<"in", i, funcInfo.inputs[i + 1].components[n]>>
    BY <1>2
  <2>2. PICK n \in DOMAIN inputInfo(i).components :
              d[2] = <<"in", i, inputInfo(i).components[n]>>
    BY <2>1 DEF inputInfo
  <2> DEFINE member == inputInfo(i).components[n]
  <2>3. /\ in[i][member] \notin {NULL, Garbage}
        /\ halfSet = {} => in[i][member] = Pointer(asked.in[i], member)
    BY <1>1 DEF InputsExact
  <2>4. Read(d[2]) = in[i][member] /\ Asked(d[2]) = Pointer(asked.in[i], member)
    BY <2>2 DEF Read, Asked
  <2>5. QED
    BY <2>3, <2>4
<1>3. CASE \E i \in Opts(funcInfo) : d[2] = <<"optIn", i, OptMember(funcInfo.optInputs[i + 1])>>
  <2>1. PICK i \in Opts(funcInfo) : d[2] = <<"optIn", i, OptMember(optInputInfo(i))>>
    BY <1>3 DEF optInputInfo
  <2>2. optIn[i] = <<OptMember(optInputInfo(i)), asked.opt[i]>>
    BY <1>1 DEF OthersExact
  <2>3. Read(d[2]) = <<OptMember(optInputInfo(i)), asked.opt[i]>> /\ Asked(d[2]) = Read(d[2])
    BY <2>1, <2>2 DEF Read, Asked
  <2>4. Read(d[2]) \notin {NULL, Garbage}
    BY <2>3 DEF OptMember, NULL, Garbage
  <2>5. QED
    BY <2>3, <2>4
<1>4. CASE \E i \in Outs(funcInfo) : d[2] = <<"out", i, OutMember(funcInfo.outputs[i + 1])>>
  <2>1. PICK i \in Outs(funcInfo) : d[2] = <<"out", i, OutMember(outputInfo(i))>>
    BY <1>4 DEF outputInfo
  <2>2. out[i] = <<OutMember(outputInfo(i)), asked.out[i]>>
    BY <1>1 DEF OthersExact, BitmapsExact
  <2>3. Read(d[2]) = <<OutMember(outputInfo(i)), asked.out[i]>> /\ Asked(d[2]) = Read(d[2])
    BY <2>1, <2>2 DEF Read, Asked
  <2>4. Read(d[2]) \notin {NULL, Garbage}
    BY <2>3 DEF OutMember, NULL, Garbage
  <2>5. QED
    BY <2>3, <2>4
<1>5. QED
  BY <1>1, <1>2, <1>3, <1>4, PlaceDeclared

\* A call reached its function, and how.
LEMMA WhatACallDid ==
  ASSUME IInv, called # NotCalled
  PROVE  /\ funcInfo # NoFunction /\ funcInfo \in AllFunctions
         /\ Reached <=> inBitmap = {} /\ outBitmap = {}
         /\ Reached => /\ called = TA_Function(Arguments(funcInfo.function.call))
                       /\ called.args = Bound(Arguments(funcInfo.function.call))
         /\ ~Reached => called.args = {}
<1>1. funcInfo # NoFunction
  BY DEF IInv
<1>2. funcInfo \in AllFunctions /\ called = CallAnswer
  BY <1>1 DEF IInv, HolderInv, HolderShape, AnswersFresh
<1>3. CASE inBitmap # {} \/ outBitmap # {}
  <2>1. called.args = {}
    BY <1>2, <1>3 DEF CallAnswer, NotCalled
  <2>2. QED
    BY <1>1, <1>2, <1>3, <2>1 DEF Reached
<1>4. CASE inBitmap = {} /\ outBitmap = {}
  <2> DEFINE call == funcInfo.function.call
             parameters == funcInfo.function.parameters
  <2>1. called = TA_Function(Arguments(call))
    BY <1>2, <1>4 DEF CallAnswer
  <2>2. TA_Function(Arguments(call)).args = Bound(Arguments(call))
    BY DEF TA_Function
  <2>3. parameters \in Seq(STRING) /\ parameters # <<>> /\ call \in Seq(Places) /\ call # <<>>
    BY <1>2, FrameTyped, ParamHolderAssumption
  <2>4. Arguments(call) \in Seq({Read(place) : place \in Places})
    <3>1. \A k \in 1 .. Len(call) : call[k] \in Places
      BY <2>3, ElementTyped
    <3>2. Len(call) \in Nat
      BY <2>3
    <3>3. QED
      BY <3>1, <3>2 DEF Arguments
  <2>5. 1 \in DOMAIN parameters /\ 1 \in DOMAIN Arguments(call)
    BY <2>3 DEF Arguments
  <2> HIDE DEF call, parameters
  <2>6. Bound(Arguments(call)) = {<<parameters[k], Arguments(call)[k]>> :
                                     k \in DOMAIN parameters \cap DOMAIN Arguments(call)}
    BY <2>3, <2>4, ZipOf DEF Bound, parameters
  <2>7. Bound(Arguments(call)) # {}
    BY <2>5, <2>6
  <2>8. QED
    BY <1>1, <1>2, <1>4, <2>1, <2>2, <2>7 DEF Reached, call
<1>5. QED
  BY <1>3, <1>4

\* The pointers of a call that reached its function.
LEMMA ArgumentsAreNotNull ==
  ASSUME IInv, called # NotCalled, Reached
  PROVE  LET args == Arguments(funcInfo.function.call)
         IN  /\ DOMAIN args = DOMAIN funcInfo.function.call
             /\ args \in Seq({Read(place) : place \in Places})
             /\ \A k \in DOMAIN args : args[k] \notin {NULL, Garbage}
             /\ NULL \notin ToSet(args)
<1> DEFINE call == funcInfo.function.call
           args == Arguments(call)
<1>1. funcInfo # NoFunction /\ funcInfo \in AllFunctions /\ inBitmap = {} /\ outBitmap = {}
  BY WhatACallDid
<1>2. call \in Seq(Places) /\ ToSet(call) \subseteq {d[2] : d \in DeclaredPlaces(funcInfo)}
  BY <1>1, FrameTyped, ParamHolderAssumption
<1>3. args = [k \in 1 .. Len(call) |-> Read(call[k])]
  BY DEF Arguments
<1> HIDE DEF args, call
<1>4. Len(call) \in Nat /\ DOMAIN call = 1 .. Len(call)
  BY <1>2
<1>5. \A k \in DOMAIN call : call[k] \in Places
  BY <1>2, ElementTyped
<1>6. args \in Seq({Read(place) : place \in Places}) /\ DOMAIN args = DOMAIN call
  BY <1>3, <1>4, <1>5
<1>7. \A k \in DOMAIN call : args[k] \notin {NULL, Garbage}
  <2> SUFFICES ASSUME NEW k \in DOMAIN call PROVE args[k] \notin {NULL, Garbage}
    OBVIOUS
  <2>1. args[k] = Read(call[k])
    BY <1>3, <1>4
  <2>2. call[k] \in {d[2] : d \in DeclaredPlaces(funcInfo)}
    BY <1>2 DEF ToSet
  <2>3. QED
    BY <1>1, <2>1, <2>2, ReadsWhatIsAsked
<1>8. NULL \notin ToSet(args)
  BY <1>6, <1>7 DEF ToSet
<1>9. QED
  BY <1>6, <1>7, <1>8 DEF args, call

-----------------------------------------------------------------------------
(* What the interface promises. *)

\* Whatever setters succeed or fail, the holder keeps one place for each parameter of its function,
\* and a table is a group table or a function table.
THEOREM TypeCorrect == Spec => []TypeOK
<1>1. IInv => TypeOK
  <2> SUFFICES ASSUME IInv PROVE TypeOK
    OBVIOUS
  <2>1. funcInfo = NoFunction <=> "holder" \notin heap
    <3>1. "holder" \in heap <=> "holder" \in heap \ {"lost"}
      OBVIOUS
    <3>2. QED
      BY <3>1, BlocksOf DEF IInv, HeapExact, Strings
  <2>2. heap \subseteq {"holder", "in", "optIn", "out", "table", "strings", "lost"}
    <3>1. heap \ {"lost"} \subseteq {"holder", "in", "optIn", "out", "table", "strings"}
      BY BlocksOf DEF IInv, HeapExact, Strings
    <3>2. QED
      BY <3>1
  <2>3. lookback \in {None, "bars", "-1"}
    BY DEF IInv, HolderInv, AnswersFresh, LookbackAnswer
  <2>4. called # NotCalled =>
           called.ret \in {"TA_SUCCESS", "TA_BAD_PARAM", "TA_INPUT_NOT_ALL_INITIALIZE",
                          "TA_OUTPUT_NOT_ALL_INITIALIZE"}
    <3> SUFFICES ASSUME called # NotCalled
                 PROVE  called.ret \in {"TA_SUCCESS", "TA_BAD_PARAM", "TA_INPUT_NOT_ALL_INITIALIZE",
                                        "TA_OUTPUT_NOT_ALL_INITIALIZE"}
      OBVIOUS
    <3>1. called = CallAnswer
      BY DEF IInv, HolderInv, AnswersFresh
    <3>2. TA_Function(Arguments(funcInfo.function.call)).ret \in {"TA_SUCCESS", "TA_BAD_PARAM"}
      BY DEF TA_Function
    <3>3. QED
      BY <3>1, <3>2 DEF CallAnswer, NotCalled
  <2>5. ASSUME funcInfo # NoFunction
        PROVE  /\ DOMAIN in = 0 .. (nbInput - 1) /\ DOMAIN asked.in = DOMAIN in
               /\ DOMAIN optIn = 0 .. (nbOptInput - 1) /\ DOMAIN asked.opt = DOMAIN optIn
               /\ DOMAIN out = 0 .. (nbOutput - 1) /\ DOMAIN asked.out = DOMAIN out
               /\ inBitmap \subseteq DOMAIN in /\ outBitmap \subseteq DOMAIN out
               /\ halfSet \subseteq DOMAIN in
    BY <2>5 DEF IInv, HolderInv, HolderShape, BitmapsExact, Ins, Opts, Outs, nbInput, nbOptInput,
                nbOutput
  <2>6. QED
    BY <2>1, <2>2, <2>3, <2>4, <2>5 DEF TypeOK, IInv, TableOK
<1>2. QED
  BY <1>1, Invariance, PTL

\* TA_ParamHolderFree, TA_FuncTableFree and the allocations that fail half-way give back every
\* block, for every table whose functions have inputs: a holder is lost only for one that has none.
THEOREM NothingIsLost ==
  ASSUME EveryFunctionHasInputs
  PROVE  Spec => []NothingLeaks
<1>1. IInv => NothingLeaks
  BY DEF IInv, HeapExact, NothingLeaks
<1>2. QED
  BY <1>1, Invariance, PTL

\* TA_CallFunc reaches the function exactly when every input and output was set with success, and
\* no pointer it passes is NULL, in whatever order the setters were called, repeated or refused.
THEOREM CallsAreComplete == Spec => []CalledWhenComplete
<1>1. IInv => CalledWhenComplete
  <2> SUFFICES ASSUME IInv, called # NotCalled
               PROVE  /\ Reached <=> /\ \A i \in DOMAIN asked.in : asked.in[i] # None
                                     /\ \A i \in DOMAIN asked.out : asked.out[i] # None
                      /\ \A arg \in called.args : arg[2] \notin {NULL, Garbage}
    BY DEF CalledWhenComplete
  <2>1. funcInfo # NoFunction /\ funcInfo \in AllFunctions
    BY WhatACallDid
  <2>2. Reached <=> inBitmap = {} /\ outBitmap = {}
    BY WhatACallDid
  <2>3. Reached <=> /\ \A i \in DOMAIN asked.in : asked.in[i] # None
                    /\ \A i \in DOMAIN asked.out : asked.out[i] # None
    BY <2>1, <2>2 DEF IInv, HolderInv, HolderShape, BitmapsExact
  <2>4. ASSUME Reached, NEW arg \in called.args
        PROVE  arg[2] \notin {NULL, Garbage}
    <3> DEFINE args == Arguments(funcInfo.function.call)
               parameters == funcInfo.function.parameters
    <3>1. arg \in ToSet(Zip(parameters, args))
      BY <2>4, WhatACallDid DEF Bound
    <3>2. parameters \in Seq(STRING)
      BY <2>1, FrameTyped
    <3>3. /\ args \in Seq({Read(place) : place \in Places})
          /\ \A k \in DOMAIN args : args[k] \notin {NULL, Garbage}
      BY <2>4, ArgumentsAreNotNull
    <3> HIDE DEF args, parameters
    <3>4. PICK k \in DOMAIN args : arg = <<parameters[k], args[k]>>
      BY <3>1, <3>2, <3>3, ZipOf
    <3>5. QED
      BY <3>3, <3>4
  <2>5. QED
    BY <2>3, <2>4, WhatACallDid
<1>2. QED
  BY <1>1, Invariance, PTL

-----------------------------------------------------------------------------
(* What it promises when the frames agree with the tables. *)

\* Where the frames pass every parameter their table declares under its name, a function is called
\* with the arguments of the setters that succeeded last.
THEOREM CallsAreAsAsked ==
  ASSUME FramesAgree
  PROVE  Spec => []CallIsAsAsked
<1>1. IInv => CallIsAsAsked
  <2> SUFFICES ASSUME IInv, Reached, halfSet = {}
               PROVE  called.args = AskedArguments
    BY DEF CallIsAsAsked
  <2> DEFINE call == funcInfo.function.call
             parameters == funcInfo.function.parameters
             args == Arguments(call)
  <2>1. called # NotCalled
    BY DEF Reached
  <2>2. /\ funcInfo # NoFunction /\ funcInfo \in AllFunctions
        /\ inBitmap = {} /\ outBitmap = {} /\ called.args = Bound(args)
    BY <2>1, WhatACallDid
  <2>3. parameters \in Seq(STRING) /\ call \in Seq(Places)
    BY <2>2, FrameTyped
  <2>4. Len(call) = Len(parameters) /\ ToSet(Zip(parameters, call)) = DeclaredPlaces(funcInfo)
    BY <2>2 DEF FramesAgree, FrameAgrees
  <2>5. args = [k \in 1 .. Len(call) |-> Read(call[k])]
    BY DEF Arguments
  <2>6. Bound(args) = ToSet(Zip(parameters, args))
    BY DEF Bound
  <2> HIDE DEF args, call, parameters
  <2>7. DOMAIN call = DOMAIN parameters /\ DOMAIN call = 1 .. Len(call)
    BY <2>3, <2>4
  <2>8. args \in Seq({Read(place) : place \in Places}) /\ DOMAIN args = DOMAIN call
    <3>1. \A k \in 1 .. Len(call) : call[k] \in Places
      BY <2>3, ElementTyped
    <3>2. Len(call) \in Nat
      BY <2>3
    <3>3. QED
      BY <2>5, <2>7, <3>1, <3>2
  <2>9. Bound(args) = {<<parameters[k], Read(call[k])>> : k \in DOMAIN call}
    <3>1. ToSet(Zip(parameters, args))
            = {<<parameters[k], args[k]>> : k \in DOMAIN parameters \cap DOMAIN args}
      BY <2>3, <2>8, ZipOf
    <3>2. DOMAIN parameters \cap DOMAIN args = DOMAIN call
      BY <2>7, <2>8
    <3>3. \A k \in DOMAIN call : args[k] = Read(call[k])
      BY <2>5, <2>7
    <3>4. QED
      BY <2>6, <3>1, <3>2, <3>3
  <2>10. DeclaredPlaces(funcInfo) = {<<parameters[k], call[k]>> : k \in DOMAIN call}
    <3>1. ToSet(Zip(parameters, call))
            = {<<parameters[k], call[k]>> : k \in DOMAIN parameters \cap DOMAIN call}
      BY <2>3, ZipOf
    <3>2. DOMAIN parameters \cap DOMAIN call = DOMAIN call
      BY <2>7
    <3>3. QED
      BY <2>4, <3>1, <3>2
  <2>11. \A k \in DOMAIN call : Read(call[k]) = Asked(call[k])
    <3> SUFFICES ASSUME NEW k \in DOMAIN call PROVE Read(call[k]) = Asked(call[k])
      OBVIOUS
    <3>1. <<parameters[k], call[k]>> \in DeclaredPlaces(funcInfo)
      BY <2>10
    <3>2. Read(<<parameters[k], call[k]>>[2]) = Asked(<<parameters[k], call[k]>>[2])
      BY <2>2, <3>1, ReadsWhatIsAsked
    <3>3. QED
      BY <3>2
  <2>12. AskedArguments = {<<parameters[k], Asked(call[k])>> : k \in DOMAIN call}
    <3>1. ASSUME NEW k \in DOMAIN call
          PROVE  <<parameters[k], Asked(call[k])>> \in AskedArguments
      <4>1. <<parameters[k], call[k]>> \in DeclaredPlaces(funcInfo)
        BY <2>10
      <4>2. <<<<parameters[k], call[k]>>[1], Asked(<<parameters[k], call[k]>>[2])>>
              \in AskedArguments
        BY <4>1 DEF AskedArguments
      <4>3. QED
        BY <4>2
    <3>2. ASSUME NEW arg \in AskedArguments
          PROVE  arg \in {<<parameters[k], Asked(call[k])>> : k \in DOMAIN call}
      <4>1. PICK d \in DeclaredPlaces(funcInfo) : arg = <<d[1], Asked(d[2])>>
        BY DEF AskedArguments
      <4>2. PICK k \in DOMAIN call : d = <<parameters[k], call[k]>>
        BY <2>10, <4>1
      <4>3. d[1] = parameters[k] /\ d[2] = call[k]
        BY <4>2
      <4>4. QED
        BY <4>1, <4>2, <4>3
    <3>3. QED
      BY <3>1, <3>2
  <2>13. QED
    BY <2>2, <2>9, <2>11, <2>12
<1>2. QED
  BY <1>1, Invariance, PTL

\* The optional inputs a function and its lookback are passed.
LEMMA OptArguments ==
  ASSUME FramesAgree, IInv, funcInfo # NoFunction
  PROVE  LET opts == [k \in 1 .. nbOptInput |->
                        <<OptMember(funcInfo.optInputs[k]), asked.opt[k - 1]>>]
             last == Len(funcInfo.function.call) - Len(funcInfo.outputs)
         IN  /\ Arguments(funcInfo.function.lookback) = opts
             /\ SubSeq(Arguments(funcInfo.function.call), last - Len(checks) + 1, last) = opts
<1> DEFINE call == funcInfo.function.call
           frame == funcInfo.function.lookback
           args == Arguments(call)
           last == Len(call) - Len(funcInfo.outputs)
           first == last - Len(checks) + 1
           opts == [k \in 1 .. nbOptInput |->
                      <<OptMember(funcInfo.optInputs[k]), asked.opt[k - 1]>>]
<1>1. funcInfo \in AllFunctions /\ OthersExact
  BY DEF IInv, HolderInv, HolderShape
<1>2. /\ nbOptInput \in Nat /\ DOMAIN funcInfo.optInputs = 1 .. nbOptInput
      /\ Len(funcInfo.outputs) \in Nat /\ Len(call) \in Nat
  BY <1>1, FunctionTyped, FrameTyped DEF nbOptInput
<1>3. /\ Len(checks) = nbOptInput /\ Len(checks) <= last
      /\ frame = [k \in 1 .. nbOptInput |-> <<"optIn", k - 1, OptMember(funcInfo.optInputs[k])>>]
      /\ frame = SubSeq(call, first, last)
  BY <1>1, <1>2 DEF FramesAgree, FrameAgrees, checks, nbOptInput
<1>4. /\ args = [k \in 1 .. Len(call) |-> Read(call[k])]
      /\ Arguments(frame) = [k \in 1 .. Len(frame) |-> Read(frame[k])]
  BY DEF Arguments
<1>5. Len(frame) = nbOptInput
  BY <1>2, <1>3
<1> HIDE DEF call, frame, args
<1>6. first \in Int /\ last \in Int /\ 1 <= first /\ last <= Len(call)
      /\ last - first + 1 = nbOptInput
  <2>1. Len(checks) = nbOptInput /\ nbOptInput <= last
    BY <1>3
  <2>2. last \in Int /\ last <= Len(call)
    BY <1>2
  <2>3. first = last - nbOptInput + 1
    BY <2>1
  <2> HIDE DEF last, first
  <2>4. QED
    BY <1>2, <2>1, <2>2, <2>3
<1>7. \A k \in 1 .. nbOptInput : Read(frame[k]) = opts[k]
  <2> SUFFICES ASSUME NEW k \in 1 .. nbOptInput PROVE Read(frame[k]) = opts[k]
    OBVIOUS
  <2>1. k - 1 \in Opts(funcInfo) /\ (k - 1) + 1 = k
    BY <1>2 DEF Opts, nbOptInput
  <2>2. optIn[k - 1] = <<OptMember(funcInfo.optInputs[k]), asked.opt[k - 1]>>
    BY <1>1, <2>1 DEF OthersExact, optInputInfo
  <2>3. frame[k] = <<"optIn", k - 1, OptMember(funcInfo.optInputs[k])>>
    BY <1>3
  <2>4. QED
    BY <2>2, <2>3 DEF Read
<1> HIDE DEF last, first
<1>8. Arguments(frame) = opts
  BY <1>4, <1>5, <1>7
<1>9. SubSeq(args, first, last) = opts
  <2>1. SubSeq(args, first, last) = [k \in 1 .. nbOptInput |-> args[first + k - 1]]
    BY <1>2, <1>4, <1>6
  <2>2. \A k \in 1 .. nbOptInput : args[first + k - 1] = Read(frame[k])
    <3> SUFFICES ASSUME NEW k \in 1 .. nbOptInput
                 PROVE  args[first + k - 1] = Read(frame[k])
      OBVIOUS
    <3>1. first + k - 1 \in 1 .. Len(call)
      BY <1>2, <1>6
    <3>2. args[first + k - 1] = Read(call[first + k - 1])
      BY <1>4, <3>1
    <3>3. frame[k] = call[first + k - 1]
      BY <1>2, <1>3, <1>6
    <3>4. QED
      BY <3>2, <3>3
  <2>3. QED
    BY <1>7, <2>1, <2>2
<1>10. QED
  BY <1>8, <1>9 DEF call, frame, args, last, first

\* What a function makes of the optional inputs that were asked for.
LEMMA OptionsTaken ==
  ASSUME FramesAgree, IInv, funcInfo # NoFunction
  PROVE  LET opts == [k \in 1 .. nbOptInput |->
                        <<OptMember(funcInfo.optInputs[k]), asked.opt[k - 1]>>]
         IN  /\ Params(opts) = [k \in 1 .. nbOptInput |->
                                  IF asked.opt[k - 1] = TA_DEFAULT
                                  THEN funcInfo.optInputs[k].defaultValue ELSE asked.opt[k - 1]]
             /\ Refuses(opts) <=>
                   ~ \A i \in DOMAIN asked.opt :
                        \/ asked.opt[i] = TA_DEFAULT
                        \/ /\ optInputInfo(i).low <= asked.opt[i]
                           /\ asked.opt[i] <= optInputInfo(i).high
<1> DEFINE opts == [k \in 1 .. nbOptInput |->
                      <<OptMember(funcInfo.optInputs[k]), asked.opt[k - 1]>>]
           info(k) == funcInfo.optInputs[k]
           value(k) == IF asked.opt[k - 1] = TA_DEFAULT THEN info(k).defaultValue
                       ELSE asked.opt[k - 1]
           legal(i) == \/ asked.opt[i] = TA_DEFAULT
                       \/ /\ optInputInfo(i).low <= asked.opt[i]
                          /\ asked.opt[i] <= optInputInfo(i).high
<1>1. funcInfo \in AllFunctions /\ asked.opt \in [Opts(funcInfo) -> Int]
  BY DEF IInv, HolderInv, HolderShape
<1>2. nbOptInput \in Nat /\ DOMAIN funcInfo.optInputs = 1 .. nbOptInput
  BY <1>1, FunctionTyped DEF nbOptInput
<1>3. \A k \in 1 .. nbOptInput :
         /\ k - 1 \in Opts(funcInfo) /\ (k - 1) + 1 = k
         /\ info(k).defaultValue \in Int /\ info(k).low \in Int /\ info(k).high \in Int
         /\ asked.opt[k - 1] \in Int
         /\ optInputInfo(k - 1) = info(k)
  <2> SUFFICES ASSUME NEW k \in 1 .. nbOptInput
               PROVE  /\ k - 1 \in Opts(funcInfo) /\ (k - 1) + 1 = k
                      /\ info(k).defaultValue \in Int /\ info(k).low \in Int /\ info(k).high \in Int
                      /\ asked.opt[k - 1] \in Int
                      /\ optInputInfo(k - 1) = info(k)
    OBVIOUS
  <2>1. k - 1 \in Opts(funcInfo) /\ (k - 1) + 1 = k
    BY <1>2 DEF Opts, nbOptInput
  <2>2. optInputInfo(k - 1) = info(k)
    BY <2>1 DEF optInputInfo
  <2>3. /\ funcInfo.optInputs[(k - 1) + 1].defaultValue \in Int
        /\ funcInfo.optInputs[(k - 1) + 1].low \in Int
        /\ funcInfo.optInputs[(k - 1) + 1].high \in Int
    BY <1>1, <2>1, OptTyped
  <2>4. QED
    BY <1>1, <2>1, <2>2, <2>3
<1>4. \A k \in 1 .. nbOptInput :
         /\ checks[k].low = info(k).low /\ checks[k].high = info(k).high
         /\ checks[k].default = info(k).defaultValue
         /\ info(k).low <= info(k).defaultValue /\ info(k).defaultValue <= info(k).high
  <2> SUFFICES ASSUME NEW k \in 1 .. nbOptInput
               PROVE  /\ checks[k].low = info(k).low /\ checks[k].high = info(k).high
                      /\ checks[k].default = info(k).defaultValue
                      /\ info(k).low <= info(k).defaultValue
                      /\ info(k).defaultValue <= info(k).high
    OBVIOUS
  <2>1. /\ checks[k] = Checks(info(k).low, info(k).high, info(k).defaultValue)
        /\ info(k).low <= info(k).defaultValue /\ info(k).defaultValue <= info(k).high
    BY <1>1, <1>2 DEF FramesAgree, ChecksAgree, checks
  <2>2. QED
    BY <2>1 DEF Checks
<1>5. /\ Len(opts) = nbOptInput
      /\ \A k \in 1 .. nbOptInput : opts[k] = <<OptMember(info(k)), asked.opt[k - 1]>>
  BY <1>2
<1>6. Params(opts) = [k \in 1 .. nbOptInput |-> value(k)]
  <2>1. \A k \in 1 .. nbOptInput :
           (IF opts[k][2] = TA_DEFAULT THEN checks[k].default ELSE opts[k][2]) = value(k)
    BY <1>4, <1>5
  <2> HIDE DEF opts, value
  <2>2. QED
    BY <1>5, <2>1 DEF Params
<1>7. \A k \in 1 .. nbOptInput : opts[k] # Garbage
  BY <1>5 DEF OptMember, Garbage
<1>8. Refuses(opts) <=>
         \E k \in 1 .. nbOptInput : value(k) < info(k).low \/ value(k) > info(k).high
  <2> HIDE DEF opts, value, info
  <2>1. \A k \in 1 .. nbOptInput : Params(opts)[k] = value(k)
    BY <1>6
  <2>2. QED
    BY <1>4, <1>5, <1>7, <2>1 DEF Refuses
<1>9. \A k \in 1 .. nbOptInput :
         legal(k - 1) <=> ~(value(k) < info(k).low \/ value(k) > info(k).high)
  BY <1>3, <1>4
<1>10. (\A i \in DOMAIN asked.opt : legal(i)) <=> \A k \in 1 .. nbOptInput : legal(k - 1)
  <2> HIDE DEF legal
  <2>1. DOMAIN asked.opt = Opts(funcInfo)
    BY <1>1
  <2>2. \A i \in Opts(funcInfo) : i + 1 \in 1 .. nbOptInput /\ (i + 1) - 1 = i
    BY <1>2 DEF Opts, nbOptInput
  <2>3. ASSUME \A k \in 1 .. nbOptInput : legal(k - 1), NEW i \in Opts(funcInfo)
        PROVE  legal(i)
    <3>1. legal((i + 1) - 1)
      BY <2>2, <2>3
    <3>2. QED
      BY <2>2, <3>1
  <2>4. QED
    BY <1>3, <2>1, <2>3
<1> HIDE DEF opts, value, info, legal
<1>11. Refuses(opts) <=> ~ \A i \in DOMAIN asked.opt : legal(i)
  BY <1>8, <1>9, <1>10
<1>12. QED
  BY <1>6, <1>11 DEF opts, value, info, legal

\* What a call that reached its function answered.
LEMMA CallTakesOptions ==
  ASSUME FramesAgree, IInv, Reached
  PROVE  LET opts == [k \in 1 .. nbOptInput |->
                        <<OptMember(funcInfo.optInputs[k]), asked.opt[k - 1]>>]
         IN  /\ funcInfo # NoFunction
             /\ called.ret = IF Refuses(opts) THEN "TA_BAD_PARAM" ELSE "TA_SUCCESS"
             /\ called.params = IF Refuses(opts) THEN <<>> ELSE Params(opts)
<1> DEFINE opts == [k \in 1 .. nbOptInput |->
                      <<OptMember(funcInfo.optInputs[k]), asked.opt[k - 1]>>]
           call == funcInfo.function.call
           last == Len(call) - Len(funcInfo.outputs)
<1>1. called # NotCalled
  BY DEF Reached
<1>2. /\ funcInfo # NoFunction /\ funcInfo \in AllFunctions
      /\ called = TA_Function(Arguments(call))
  BY <1>1, WhatACallDid
<1>3. SubSeq(Arguments(call), last - Len(checks) + 1, last) = opts
  BY <1>2, OptArguments
<1>4. NULL \notin ToSet(Arguments(call))
  BY <1>1, ArgumentsAreNotNull
<1> HIDE DEF opts
<1>5. Len(Arguments(call)) = Len(call)
  <2>1. Len(call) \in Nat
    BY <1>2, FrameTyped
  <2>2. QED
    BY <2>1 DEF Arguments
<1> HIDE DEF call
<1>6. SubSeq(Arguments(call), Len(Arguments(call)) - Len(funcInfo.outputs) - Len(checks) + 1,
             Len(Arguments(call)) - Len(funcInfo.outputs)) = opts
  BY <1>3, <1>5
<1>7. /\ TA_Function(Arguments(call)).ret = IF Refuses(opts) THEN "TA_BAD_PARAM" ELSE "TA_SUCCESS"
      /\ TA_Function(Arguments(call)).params = IF Refuses(opts) THEN <<>> ELSE Params(opts)
  BY <1>4, <1>6 DEF TA_Function
<1>8. QED
  BY <1>2, <1>7 DEF opts, call

\* Where the frames and the checks agree with the tables, a call is refused for the values outside
\* the declared ranges and for no others, and the lookback of the same holder says the same.
THEOREM RangesAreAsDeclared ==
  ASSUME FramesAgree
  PROVE  Spec => []RangesAgree
<1>1. IInv => RangesAgree
  <2> SUFFICES ASSUME IInv PROVE RangesAgree
    OBVIOUS
  <2> DEFINE legal == \A i \in DOMAIN asked.opt :
                         \/ asked.opt[i] = TA_DEFAULT
                         \/ /\ optInputInfo(i).low <= asked.opt[i]
                            /\ asked.opt[i] <= optInputInfo(i).high
             opts == [k \in 1 .. nbOptInput |->
                        <<OptMember(funcInfo.optInputs[k]), asked.opt[k - 1]>>]
  <2>1. funcInfo # NoFunction => (Refuses(opts) <=> ~legal)
    BY OptionsTaken
  <2>2. ASSUME Reached
        PROVE  called.ret = "TA_SUCCESS" <=> legal
    <3>1. /\ funcInfo # NoFunction
          /\ called.ret = IF Refuses(opts) THEN "TA_BAD_PARAM" ELSE "TA_SUCCESS"
      BY <2>2, CallTakesOptions
    <3> HIDE DEF opts, legal
    <3>2. QED
      BY <2>1, <3>1
  <2>3. ASSUME lookback # None
        PROVE  lookback = "bars" <=> legal
    <3>1. funcInfo # NoFunction /\ lookback = LookbackAnswer(Arguments(funcInfo.function.lookback))
      BY <2>3 DEF IInv, HolderInv, AnswersFresh
    <3>2. Arguments(funcInfo.function.lookback) = opts
      BY <3>1, OptArguments
    <3> HIDE DEF opts, legal
    <3>3. QED
      BY <2>1, <3>1, <3>2 DEF LookbackAnswer
  <2> HIDE DEF opts
  <2>4. QED
    BY <2>2, <2>3 DEF RangesAgree
<1>2. QED
  BY <1>1, Invariance, PTL

\* Where the frames and the checks agree with the tables, a function works with the declared default
\* of an optional input the caller left alone or set to TA_INTEGER_DEFAULT or TA_REAL_DEFAULT.
THEOREM DefaultsAreAsDeclared ==
  ASSUME FramesAgree
  PROVE  Spec => []DefaultsAgree
<1>1. IInv => DefaultsAgree
  <2> SUFFICES ASSUME IInv, Reached,
                      \A i \in DOMAIN asked.opt :
                         asked.opt[i] \in {optInputInfo(i).defaultValue, TA_DEFAULT}
               PROVE  called.params = [k \in 1 .. nbOptInput |-> funcInfo.optInputs[k].defaultValue]
    BY DEF DefaultsAgree
  <2> DEFINE opts == [k \in 1 .. nbOptInput |->
                        <<OptMember(funcInfo.optInputs[k]), asked.opt[k - 1]>>]
             info(k) == funcInfo.optInputs[k]
  <2>1. /\ funcInfo # NoFunction
        /\ called.params = IF Refuses(opts) THEN <<>> ELSE Params(opts)
    BY CallTakesOptions
  <2>2. /\ Params(opts) = [k \in 1 .. nbOptInput |->
                             IF asked.opt[k - 1] = TA_DEFAULT THEN info(k).defaultValue
                             ELSE asked.opt[k - 1]]
        /\ Refuses(opts) <=> ~ \A i \in DOMAIN asked.opt :
                                  \/ asked.opt[i] = TA_DEFAULT
                                  \/ /\ optInputInfo(i).low <= asked.opt[i]
                                     /\ asked.opt[i] <= optInputInfo(i).high
    BY <2>1, OptionsTaken
  <2>3. funcInfo \in AllFunctions /\ asked.opt \in [Opts(funcInfo) -> Int]
    BY <2>1 DEF IInv, HolderInv, HolderShape
  <2>4. \A i \in Opts(funcInfo) :
           /\ optInputInfo(i).low <= optInputInfo(i).defaultValue
           /\ optInputInfo(i).defaultValue <= optInputInfo(i).high
    BY <2>3, OptTyped DEF FramesAgree, ChecksAgree, optInputInfo
  <2>5. ~Refuses(opts)
    <3> HIDE DEF opts
    <3>1. QED
      BY <2>2, <2>3, <2>4
  <2>6. \A k \in 1 .. nbOptInput :
           (IF asked.opt[k - 1] = TA_DEFAULT THEN info(k).defaultValue ELSE asked.opt[k - 1])
             = info(k).defaultValue
    <3> SUFFICES ASSUME NEW k \in 1 .. nbOptInput
                 PROVE  (IF asked.opt[k - 1] = TA_DEFAULT THEN info(k).defaultValue
                         ELSE asked.opt[k - 1]) = info(k).defaultValue
      OBVIOUS
    <3>1. nbOptInput \in Nat
      BY <2>3, FunctionTyped DEF nbOptInput
    <3>2. k - 1 \in Opts(funcInfo) /\ (k - 1) + 1 = k
      BY <3>1 DEF Opts, nbOptInput
    <3>3. optInputInfo(k - 1) = info(k)
      BY <3>2 DEF optInputInfo
    <3>4. asked.opt[k - 1] \in {info(k).defaultValue, TA_DEFAULT}
      BY <2>3, <3>2, <3>3
    <3>5. QED
      BY <3>4
  <2> HIDE DEF opts
  <2>7. called.params = Params(opts)
    BY <2>1, <2>5
  <2>8. QED
    BY <2>2, <2>6, <2>7
<1>2. QED
  BY <1>1, Invariance, PTL
==============================================================================
