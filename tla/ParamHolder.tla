------------------------------ MODULE ParamHolder ------------------------------
(***************************************************************************)
(* TA-Lib's abstract call interface (ta_abstract/ta_abstract.c): a caller  *)
(* lists the functions of a group, allocates a TA_ParamHolder for one of   *)
(* them, sets its inputs, optional inputs and outputs one by one, asks for *)
(* the lookback and makes the call.                                        *)
(*                                                                         *)
(* The caller holds one holder or one string table at a time.  It may pass *)
(* NULL, an unknown name or group, an index that does not exist, a setter  *)
(* of the wrong type, an optional value out of range, and it may set a     *)
(* parameter again.  Its handles, tables and holders are those it was      *)
(* given and has not freed.  Any TA_Malloc may fail.                       *)
(***************************************************************************)
EXTENDS FunctionChecks, FiniteSets, SequencesExt

CONSTANTS
    Tables,     \* per letter, the TA_FuncDef of its functions; a TA_FuncHandle points to one
    GroupString,\* the groups
    PerGroup,   \* per group, the names TA_PerGroupFuncDef lists
    Sources,    \* the price bars and series a caller may pass
    Outputs,    \* the arrays a caller may have filled
    MaxChosen   \* bound: optional inputs that differ from their default at a time

None == "none"

\* Everything a frame passes on is a pair; the caller passes None for a NULL pointer.
NULL == <<"NULL", None>>
Garbage == <<"garbage", None>>
NoFunction ==
    [name |-> None, groupId |-> None, inputs |-> <<>>, optInputs |-> <<>>, outputs |-> <<>>,
     function |-> [parameters |-> <<>>, call |-> <<>>, lookback |-> <<>>, checks |-> <<>>]]
NotCalled == [ret |-> None, args |-> {}, params |-> <<>>]
NoTable == [magic |-> None, group |-> None, string |-> <<>>]

VARIABLES
    funcInfo,   \* the function the holder was allocated for, or NoFunction
    in,         \* per input, the pointer in each member of its data
    optIn,      \* per optional input, the member of its data last stored to, and the value
    out,        \* per output, the member of its data last stored to, and the pointer
    inBitmap,   \* the inputs not set yet
    outBitmap,  \* the outputs not set yet
    called,     \* what the last TA_CallFunc did, NotCalled once a parameter is set again
    lookback,   \* what the last TA_GetLookback answered, None once a parameter is set again
    heap,       \* the blocks allocated and not freed, a "lost" one that nobody points to
    table,      \* the string table the caller holds, or NoTable
    asked,      \* history: the arguments of the last setter that succeeded, per parameter
    halfSet     \* history: the inputs a refused setter wrote to since

holder  == <<funcInfo, in, optIn, out, inBitmap, outBitmap>>
results == <<called, lookback>>
vars    == <<holder, results, heap, table, asked, halfSet>>

-----------------------------------------------------------------------------
PriceMembers == {"open", "high", "low", "close", "volume", "openInterest"}
Members      == PriceMembers \cup {"real", "integer"}

nbInput    == Len(funcInfo.inputs)
nbOptInput == Len(funcInfo.optInputs)
nbOutput   == Len(funcInfo.outputs)

inputInfo(i)    == funcInfo.inputs[i + 1]
optInputInfo(i) == funcInfo.optInputs[i + 1]
outputInfo(i)   == funcInfo.outputs[i + 1]

\* The caller's pointer to a member of a source.
Pointer(source, member) == <<source, member>>

-----------------------------------------------------------------------------
(* Finding a function. *)

Letters ==
    <<"A", "B", "C", "D", "E", "F", "G", "H", "I", "J", "K", "L", "M",
      "N", "O", "P", "Q", "R", "S", "T", "U", "V", "W", "X", "Y", "Z">>

\* The function of this name, looked for in the table of its first letter only.
TA_GetFuncHandle(name) ==
    LET letter == {i \in DOMAIN Letters : Letters[i] = SubSeq(name, 1, 1)}
        found  == {f \in UNION {ToSet(Tables[i]) : i \in letter} : f.name = name}
    IN  IF found = {} THEN NoFunction ELSE CHOOSE f \in found : TRUE

\* The functions TA_ForEachFunc visits, in its order.
TA_ForEachFunc == FlattenSeq(Tables)

AllFunctions == UNION {ToSet(Tables[i]) : i \in DOMAIN Tables}

getGroupId(group) == {g \in DOMAIN GroupString : GroupString[g] = group}

-----------------------------------------------------------------------------
(* What a table declares. *)

\* The member of the union "data" a parameter of this type is passed in.
OptMember(info) == IF info.type = "RealRange" THEN "real" ELSE "integer"
OutMember(info) == IF info.type = "Real" THEN "real" ELSE "integer"

\* The place of every parameter of function f, with the name its table gives it.
DeclaredPlaces(f) ==
    (UNION {{<<f.inputs[k].parameters[n], <<"in", k - 1, f.inputs[k].components[n]>>>> :
                n \in DOMAIN f.inputs[k].components} : k \in DOMAIN f.inputs})
    \cup {<<f.optInputs[k].paramName, <<"optIn", k - 1, OptMember(f.optInputs[k])>>>> :
             k \in DOMAIN f.optInputs}
    \cup {<<f.outputs[k].paramName, <<"out", k - 1, OutMember(f.outputs[k])>>>> :
             k \in DOMAIN f.outputs}

Places == {"in", "optIn", "out"} \X Nat \X Members

\* The bits of an int that 1 << paramIndex may set.
BitmapWidth == 31

FuncDefs ==
    [name : STRING, groupId : STRING,
     inputs : Seq([type : {"Price", "Real", "Integer"}, components : Seq(Members),
                   parameters : Seq(STRING)]),
     optInputs : Seq([type : {"RealRange", "IntegerRange", "IntegerList"}, low : Int, high : Int,
                      paramName : STRING, defaultValue : Int]),
     outputs : Seq([type : {"Real", "Integer"}, paramName : STRING]),
     function : [parameters : Seq(STRING), call : Seq(Places), lookback : Seq(Places),
                 checks : Seq([low : Int, high : Int, default : Int])]]

\* There is a table for each letter and a list for each group; an input is a price bar or one series,
\* a bitmap has a bit for each parameter, and a frame reads nothing but the places its table declares.
ASSUME ParamHolderAssumption ==
    /\ DOMAIN Tables = DOMAIN Letters
    /\ AllFunctions \subseteq FuncDefs
    /\ \A f \in AllFunctions :
          /\ \A k \in DOMAIN f.inputs :
                /\ f.inputs[k].type = "Real" => f.inputs[k].components = <<"real">>
                /\ f.inputs[k].type = "Integer" => f.inputs[k].components = <<"integer">>
          /\ Len(f.inputs) <= BitmapWidth /\ Len(f.outputs) <= BitmapWidth
          /\ f.function.parameters # <<>> /\ f.function.call # <<>>
          /\ ToSet(f.function.call) \subseteq {d[2] : d \in DeclaredPlaces(f)}
    /\ GroupString \in Seq(STRING) /\ DOMAIN PerGroup = DOMAIN GroupString
    /\ \A g \in DOMAIN PerGroup : PerGroup[g] \in Seq(STRING)
    /\ None \notin Sources /\ None \notin Outputs

-----------------------------------------------------------------------------
(* What a frame reads, and what the function it calls makes of it. *)

Read(place) ==
    LET i == place[2]
        member == place[3]
    IN  CASE place[1] = "in"    -> in[i][member]
          [] place[1] = "optIn" -> IF optIn[i][1] = member THEN optIn[i] ELSE Garbage
          [] place[1] = "out"   -> IF out[i][1] = member THEN out[i] ELSE NULL

Arguments(places) == [k \in 1 .. Len(places) |-> Read(places[k])]

checks == funcInfo.function.checks

\* What a function makes of the optional inputs it is passed, TA_DEFAULT replaced.
Params(args) ==
    [k \in 1 .. Len(args) |-> IF args[k][2] = TA_DEFAULT THEN checks[k].default ELSE args[k][2]]

Refuses(args) ==
    \E k \in 1 .. Len(args) :
        args[k] = Garbage \/ Params(args)[k] < checks[k].low \/ Params(args)[k] > checks[k].high

\* Which parameter of the function's prototype each argument arrives at.
Bound(args) == ToSet(Zip(funcInfo.function.parameters, args))

\* Every TA function checks its pointers and its optional inputs before anything else.
TA_Function(args) ==
    LET last == Len(args) - Len(funcInfo.outputs)
        opts == SubSeq(args, last - Len(checks) + 1, last)
    IN  IF NULL \in ToSet(args) \/ Refuses(opts)
        THEN [ret |-> "TA_BAD_PARAM", args |-> Bound(args), params |-> <<>>]
        ELSE [ret |-> "TA_SUCCESS", args |-> Bound(args), params |-> Params(opts)]

\* Every TA_X_Lookback checks its optional inputs in the same way; -1 is its only complaint.
LookbackAnswer(args) == IF Refuses(args) THEN "-1" ELSE "bars"

-----------------------------------------------------------------------------
(* Allocation. *)

\* The blocks of a holder, in the order they are allocated.
Blocks(f) ==
    IF f.optInputs = <<>> THEN <<"holder", "in", "out">> ELSE <<"holder", "in", "optIn", "out">>

\* Mutant of ParamHolderFree: without TA_Free(paramsToFree).
ParamHolderFreeArrays(linked) == linked \cap {"optIn", "in", "out"}

\* What TA_ParamHolderFree frees of a holder that has these blocks linked.
ParamHolderFree(linked) == {"holder"} \cup (linked \cap {"optIn", "in", "out"})

\* Mutant of FuncTableFree: without TA_Free(table->string).
FuncTableFreeTable(linked) == {"table"}

\* What TA_FuncTableFree frees.
FuncTableFree(linked) == {"table"} \cup (linked \cap {"strings"})

\* The block of a function table's strings; a group without functions has none.
Strings(list) == IF list = <<>> THEN {} ELSE {"strings"}

NotAsked == [in |-> <<>>, opt |-> <<>>, out |-> <<>>]

Init ==
    /\ funcInfo = NoFunction /\ in = <<>> /\ optIn = <<>> /\ out = <<>> /\ inBitmap = {} /\ outBitmap = {}
    /\ called = NotCalled /\ lookback = None
    /\ heap = {} /\ table = NoTable
    /\ asked = NotAsked /\ halfSet = {}

CallerIsFree == funcInfo = NoFunction /\ table = NoTable

\* The early return between the first two TA_Mallocs, with TA_INTERNAL_ERROR(2): nobody is given the
\* holder, and nobody frees it.
RefusedWithoutInputs(f) ==
    /\ f.inputs = <<>>
    /\ heap' = heap \cup {"lost"}
    /\ UNCHANGED <<holder, results, table, asked, halfSet>>

Allocated(f) ==
    LET ins == 0 .. (Len(f.inputs) - 1)
        opts == 0 .. (Len(f.optInputs) - 1)
        outs == 0 .. (Len(f.outputs) - 1)
        info(i) == f.optInputs[i + 1]
    IN  /\ f.inputs # <<>>
        /\ funcInfo' = f
        /\ heap' = heap \cup ToSet(Blocks(f))
        /\ in' = [i \in ins |-> [m \in Members |-> NULL]]
        /\ optIn' = [i \in opts |-> <<OptMember(info(i)), info(i).defaultValue>>]
        /\ out' = [i \in outs |-> NULL]
        /\ inBitmap' = ins /\ outBitmap' = outs
        /\ asked' = [in |-> [i \in ins |-> None], opt |-> [i \in opts |-> info(i).defaultValue],
                     out |-> [i \in outs |-> None]]
        /\ UNCHANGED <<results, table, halfSet>>

TA_ParamHolderAlloc(f) ==
    /\ CallerIsFree /\ f # NoFunction
    /\ RefusedWithoutInputs(f) \/ Allocated(f)

\* The TA_Malloc after the first k of them fails: whatever was allocated is linked already.
ParamHolderAllocFails(f, k) ==
    LET malloced == {Blocks(f)[j] : j \in 1 .. k}
    IN  /\ CallerIsFree /\ f # NoFunction
        /\ k < Len(Blocks(f)) /\ (k = 0 \/ f.inputs # <<>>)
        /\ heap' = IF k = 0 THEN heap ELSE (heap \cup malloced) \ ParamHolderFree(malloced)
        /\ UNCHANGED <<holder, results, table, asked, halfSet>>

TA_ParamHolderFree ==
    /\ funcInfo # NoFunction
    /\ heap' = heap \ ParamHolderFree(ToSet(Blocks(funcInfo)))
    /\ funcInfo' = NoFunction /\ in' = <<>> /\ optIn' = <<>> /\ out' = <<>> /\ inBitmap' = {} /\ outBitmap' = {}
    /\ called' = NotCalled /\ lookback' = None
    /\ asked' = NotAsked /\ halfSet' = {}
    /\ UNCHANGED table

TA_GroupTableAlloc ==
    /\ CallerIsFree
    /\ table' = [magic |-> "group", group |-> None, string |-> GroupString]
    /\ heap' = heap \cup {"table"}
    /\ UNCHANGED <<holder, results, asked, halfSet>>

TA_FuncTableAlloc(group) ==
    /\ CallerIsFree
    /\ \/ \E groupId \in getGroupId(group) :
             /\ table' = [magic |-> "func", group |-> group, string |-> PerGroup[groupId]]
             /\ heap' = heap \cup {"table"} \cup Strings(PerGroup[groupId])
             /\ UNCHANGED <<holder, results, asked, halfSet>>
       \/ getGroupId(group) = {} /\ UNCHANGED vars

\* The array of strings cannot be allocated.
FuncTableAllocFails ==
    /\ CallerIsFree /\ \E groupId \in DOMAIN PerGroup : PerGroup[groupId] # <<>>
    /\ heap' = (heap \cup {"table"}) \ FuncTableFree({})
    /\ UNCHANGED <<holder, results, table, asked, halfSet>>

\* A table is freed by its own function only: TA_GroupString is not allocated.
TableFreed(magic, blocks) ==
    /\ table # NoTable
    /\ \/ /\ table.magic = magic
          /\ table' = NoTable
          /\ heap' = heap \ blocks
          /\ UNCHANGED <<holder, results, asked, halfSet>>
       \/ table.magic # magic /\ UNCHANGED vars

TA_GroupTableFree == TableFreed("group", {"table"})
TA_FuncTableFree  == TableFreed("func", FuncTableFree(Strings(table.string)))

-----------------------------------------------------------------------------
(* The setters.  An index is refused from nbInput (nbOptInput, nbOutput) on. *)

NewParameter == called' = NotCalled /\ lookback' = None /\ UNCHANGED <<funcInfo, heap, table>>

Refused == UNCHANGED vars

AcceptsInput(i, type)  == i < nbInput /\ inputInfo(i).type = type
AcceptsOpt(i, types)   == i < nbOptInput /\ optInputInfo(i).type \in types
AcceptsOutput(i, type) == i < nbOutput /\ outputInfo(i).type = type

\* TA_SetInputParamIntegerPtr and TA_SetInputParamRealPtr; "source" may be None.
SetInputParam(i, type, member, source) ==
    /\ funcInfo # NoFunction
    /\ \/ /\ source # None /\ AcceptsInput(i, type)
          /\ in' = [in EXCEPT ![i][member] = Pointer(source, member)]
          /\ inBitmap' = inBitmap \ {i}
          /\ asked' = [asked EXCEPT !.in[i] = source]
          /\ NewParameter
          /\ UNCHANGED <<optIn, out, outBitmap, halfSet>>
       \/ (source = None \/ ~AcceptsInput(i, type)) /\ Refused

TA_SetInputParamIntegerPtr(i, source) == SetInputParam(i, "Integer", "integer", source)
TA_SetInputParamRealPtr(i, source)    == SetInputParam(i, "Real", "real", source)

\* The components in front of the first one that is NULL.
Stored(components, missing) ==
    {components[k] : k \in {n \in 1 .. Len(components) : \A j \in 1 .. n : components[j] # missing}}

\* Mutant of Complete: a NULL component does not end the setter.
CompleteAnyway(components, missing) == TRUE

Complete(components, missing) == missing \notin ToSet(components)

\* The components in front of the first one that is NULL are stored; the bit is cleared only if all
\* are.
TA_SetInputParamPricePtr(i, source, missing) ==
    /\ funcInfo # NoFunction
    /\ \/ /\ AcceptsInput(i, "Price")
          /\ LET components == inputInfo(i).components
                 stored == Stored(components, missing)
             IN  /\ in' = [in EXCEPT ![i] = [m \in Members |->
                            IF m \in stored THEN Pointer(source, m) ELSE in[i][m]]]
                 /\ IF Complete(components, missing)
                    THEN /\ inBitmap' = inBitmap \ {i}
                         /\ asked' = [asked EXCEPT !.in[i] = source]
                         /\ halfSet' = halfSet \ {i}
                    ELSE /\ halfSet' = IF stored = {} THEN halfSet ELSE halfSet \cup {i}
                         /\ UNCHANGED <<inBitmap, asked>>
          /\ NewParameter
          /\ UNCHANGED <<optIn, out, outBitmap>>
       \/ ~AcceptsInput(i, "Price") /\ Refused

SetOptInputParam(i, types, member, value) ==
    /\ funcInfo # NoFunction
    /\ \/ /\ AcceptsOpt(i, types)
          /\ optIn' = [optIn EXCEPT ![i] = <<member, value>>]
          /\ asked' = [asked EXCEPT !.opt[i] = value]
          /\ NewParameter
          /\ UNCHANGED <<in, out, inBitmap, outBitmap, halfSet>>
       \/ ~AcceptsOpt(i, types) /\ Refused

TA_SetOptInputParamInteger(i, value) ==
    SetOptInputParam(i, {"IntegerRange", "IntegerList"}, "integer", value)
TA_SetOptInputParamReal(i, value) == SetOptInputParam(i, {"RealRange", "RealList"}, "real", value)

SetOutputParam(i, type, member, pointer) ==
    /\ funcInfo # NoFunction
    /\ \/ /\ pointer # None /\ AcceptsOutput(i, type)
          /\ out' = [out EXCEPT ![i] = <<member, pointer>>]
          /\ outBitmap' = outBitmap \ {i}
          /\ asked' = [asked EXCEPT !.out[i] = pointer]
          /\ NewParameter
          /\ UNCHANGED <<in, optIn, inBitmap, halfSet>>
       \/ (pointer = None \/ ~AcceptsOutput(i, type)) /\ Refused

TA_SetOutputParamIntegerPtr(i, pointer) == SetOutputParam(i, "Integer", "integer", pointer)
TA_SetOutputParamRealPtr(i, pointer)    == SetOutputParam(i, "Real", "real", pointer)

-----------------------------------------------------------------------------
(* The two calls. *)

TA_GetLookback ==
    /\ funcInfo # NoFunction
    /\ lookback' = LookbackAnswer(Arguments(funcInfo.function.lookback))
    /\ UNCHANGED <<holder, called, heap, table, asked, halfSet>>

\* The bitmaps are looked at before the frame is called.
CallAnswer ==
    IF inBitmap # {} THEN [NotCalled EXCEPT !.ret = "TA_INPUT_NOT_ALL_INITIALIZE"]
    ELSE IF outBitmap # {} THEN [NotCalled EXCEPT !.ret = "TA_OUTPUT_NOT_ALL_INITIALIZE"]
    ELSE TA_Function(Arguments(funcInfo.function.call))

TA_CallFunc ==
    /\ funcInfo # NoFunction
    /\ called' = CallAnswer
    /\ UNCHANGED <<holder, lookback, heap, table, asked, halfSet>>

-----------------------------------------------------------------------------
(* What callers pass. *)

\* The names a list of functions gave the caller, and one that nothing lists.
SomeNames == (UNION {ToSet(PerGroup[g]) : g \in DOMAIN PerGroup}) \cup {"UNKNOWN"}

SomeSources == Sources \cup {None}
SomeOutputs == Outputs \cup {None}

\* The default again or the constant that stands for it, and both sides of both ends of the range.
OptValues(i) ==
    IF i >= nbOptInput THEN {0}
    ELSE LET info == optInputInfo(i)
             others == {j \in DOMAIN asked.opt \ {i} : asked.opt[j] # optInputInfo(j).defaultValue}
         IN  {info.defaultValue} \cup
             (IF Cardinality(others) < MaxChosen
              THEN {TA_DEFAULT, info.low, info.low - 1, info.high, info.high + 1} ELSE {})

SetInputs ==
    \E i \in 0 .. nbInput :
        \/ \E source \in SomeSources : TA_SetInputParamIntegerPtr(i, source)
        \/ \E source \in SomeSources : TA_SetInputParamRealPtr(i, source)
        \/ \E source \in Sources, missing \in PriceMembers \cup {None} :
               TA_SetInputParamPricePtr(i, source, missing)

SetOpts ==
    \E i \in 0 .. nbOptInput : \E value \in OptValues(i) :
        TA_SetOptInputParamInteger(i, value) \/ TA_SetOptInputParamReal(i, value)

SetOutputs ==
    \E i \in 0 .. nbOutput : \E pointer \in SomeOutputs :
        TA_SetOutputParamIntegerPtr(i, pointer) \/ TA_SetOutputParamRealPtr(i, pointer)

Next ==
    \/ CallerIsFree /\ \E name \in SomeNames : LET handle == TA_GetFuncHandle(name) IN
           TA_ParamHolderAlloc(handle) \/ \E k \in 0 .. 3 : ParamHolderAllocFails(handle, k)
    \/ TA_ParamHolderFree
    \/ TA_GroupTableAlloc
    \/ \E group \in ToSet(GroupString) \cup {"Unknown"} : TA_FuncTableAlloc(group)
    \/ FuncTableAllocFails
    \/ TA_GroupTableFree
    \/ TA_FuncTableFree
    \/ funcInfo # NoFunction /\ (SetInputs \/ SetOpts \/ SetOutputs)
    \/ TA_GetLookback
    \/ TA_CallFunc

Spec == Init /\ [][Next]_vars

-----------------------------------------------------------------------------
(* Properties. *)

\* The type invariant.
TypeOK ==
    /\ funcInfo = NoFunction <=> "holder" \notin heap
    /\ \/ table = NoTable
       \/ table \in [magic : {"group", "func"}, group : ToSet(GroupString) \cup {None},
                    string : Seq(STRING)]
    /\ heap \subseteq {"holder", "in", "optIn", "out", "table", "strings", "lost"}
    /\ lookback \in {None, "bars", "-1"}
    /\ called # NotCalled =>
           called.ret \in {"TA_SUCCESS", "TA_BAD_PARAM", "TA_INPUT_NOT_ALL_INITIALIZE",
                          "TA_OUTPUT_NOT_ALL_INITIALIZE"}
    /\ funcInfo # NoFunction =>
         /\ DOMAIN in = 0 .. (nbInput - 1) /\ DOMAIN asked.in = DOMAIN in
         /\ DOMAIN optIn = 0 .. (nbOptInput - 1) /\ DOMAIN asked.opt = DOMAIN optIn
         /\ DOMAIN out = 0 .. (nbOutput - 1) /\ DOMAIN asked.out = DOMAIN out
         /\ inBitmap \subseteq DOMAIN in /\ outBitmap \subseteq DOMAIN out
         /\ halfSet \subseteq DOMAIN in

\* TA_CallFunc reached the function.
Reached == called # NotCalled /\ called.args # {}

\* What the caller asked for, by the names the table declares.
Asked(place) ==
    LET i == place[2]
        member == place[3]
    IN  CASE place[1] = "in"    -> Pointer(asked.in[i], member)
          [] place[1] = "optIn" -> <<member, asked.opt[i]>>
          [] place[1] = "out"   -> <<member, asked.out[i]>>

AskedArguments == {<<d[1], Asked(d[2])>> : d \in DeclaredPlaces(funcInfo)}

\* A function is called with the arguments of the setters that succeeded last, each at the
\* parameter of its prototype that has the name the tables declare, whatever was set before,
\* refused, or set in another order; the exception is an input a refused TA_SetInputParamPricePtr
\* has written to.
CallIsAsAsked == Reached /\ halfSet = {} => called.args = AskedArguments

\* TA_CallFunc reaches the function exactly when every input and output was set with success since
\* the holder was allocated, and then no pointer of the call is NULL: the bitmaps follow the setters.
CalledWhenComplete ==
    called # NotCalled =>
        /\ Reached <=> /\ \A i \in DOMAIN asked.in : asked.in[i] # None
                       /\ \A i \in DOMAIN asked.out : asked.out[i] # None
        /\ \A arg \in called.args : arg[2] \notin {NULL, Garbage}

\* "The optional input are not required to be setup. A default value will always be used in that case"
\* (ta_abstract.h:461): a function works with the default its table declares, whether the caller left
\* the optional input alone or set it to TA_INTEGER_DEFAULT or TA_REAL_DEFAULT.
DefaultsAgree ==
    Reached /\ (\A i \in DOMAIN asked.opt : asked.opt[i] \in {optInputInfo(i).defaultValue, TA_DEFAULT})
        => called.params = [k \in 1 .. nbOptInput |-> funcInfo.optInputs[k].defaultValue]

\* A function refuses exactly the values outside the ranges its table declares, and TA_GetLookback,
\* which returns TA_SUCCESS whatever happens, answers -1 for the same values.
RangesAgree ==
    LET legal == \A i \in DOMAIN asked.opt :
                    \/ asked.opt[i] = TA_DEFAULT
                    \/ optInputInfo(i).low <= asked.opt[i] /\ asked.opt[i] <= optInputInfo(i).high
    IN  /\ Reached => (called.ret = "TA_SUCCESS" <=> legal)
        /\ lookback # None => (lookback = "bars" <=> legal)

\* No block of memory is left of what a caller held or asked for: not after a free, not after an
\* allocation that failed half-way, and not after one that was refused.
NothingLeaks == funcInfo = NoFunction /\ table = NoTable => heap = {}

\* The table of a group lists the functions that declare this group, each once, and
\* TA_GetFuncHandle finds each of them: the group index, the order of the groups, the tables and the
\* letters they are filed under agree.
GroupListsItsFunctions ==
    table.magic = "func" =>
        /\ ToSet(table.string) =
               {f.name : f \in {g \in ToSet(TA_ForEachFunc) : g.groupId = table.group}}
        /\ Len(table.string) = Cardinality(ToSet(table.string))
        /\ \A name \in ToSet(table.string) : TA_GetFuncHandle(name).groupId = table.group

\* A frame passes every parameter its table declares, once, at the parameter of the prototype that
\* has this name, the optional inputs in their order; the lookback frame passes these.
FrameAgrees(f) ==
    LET frame == f.function
        last == Len(frame.call) - Len(f.outputs)
    IN  /\ Len(frame.call) = Len(frame.parameters)
        /\ ToSet(Zip(frame.parameters, frame.call)) = DeclaredPlaces(f)
        /\ Len(frame.checks) = Len(f.optInputs) /\ Len(frame.checks) <= last
        /\ frame.lookback = [k \in DOMAIN f.optInputs |->
                                <<"optIn", k - 1, OptMember(f.optInputs[k])>>]
        /\ frame.lookback = SubSeq(frame.call, last - Len(frame.checks) + 1, last)

\* A function checks its optional inputs for the range its table declares, and has the same default.
ChecksAgree(f) ==
    \A k \in DOMAIN f.optInputs :
        LET info == f.optInputs[k]
        IN  /\ f.function.checks[k] = Checks(info.low, info.high, info.defaultValue)
            /\ TA_DEFAULT < info.low /\ info.low <= info.defaultValue
            /\ info.defaultValue <= info.high

FramesAgree == \A f \in AllFunctions : FrameAgrees(f) /\ ChecksAgree(f)

\* TA_ParamHolderAlloc loses the holder of a function without inputs; there is none.
EveryFunctionHasInputs == \A f \in AllFunctions : f.inputs # <<>>

\* What the generator writes side by side agrees: tables, prototypes, frames, the checks in the
\* functions and the group index.  Each function has inputs, as TA_ParamHolderAlloc expects.
TablesAgree == FramesAgree /\ EveryFunctionHasInputs /\ GroupListsItsFunctions
=============================================================================
