----------------------------- MODULE ModuleLoader -----------------------------
(***************************************************************************)
(* How an environment loads the modules of a program (js/Env.cpp): the     *)
(* recursion of loadEntryModule, V8's Module::InstantiateModule, and the   *)
(* callback importModule, which compiles, instantiates and evaluates what  *)
(* is imported before the importing module has its next import.            *)
(*                                                                         *)
(* The call stack is a sequence of frames, one for each module that V8 is  *)
(* preparing.  What V8 does is taken from its sources: it calls back for   *)
(* every import, then prepares those of the modules it got that are not    *)
(* linked yet.                                                             *)
(***************************************************************************)
EXTENDS Naturals, Sequences, SequencesExt

CONSTANTS Programs,    \* the programs: [disk, broken, imports]
          Main,        \* the name the entry module imports
          Native,      \* "native-js"
          ResolveSuffixes, \* AppConfig::resolve
          StackLimit   \* how many frames fit on V8's stack

Spellings == {"", "other"}   \* bound: how many ways there are to spell a path

ASSUME LimitAssumption == StackLimit \in Nat \ {0}
ASSUME NamesAssumption == Native \in STRING /\ Main \in STRING /\ ResolveSuffixes \in Seq(STRING)
ASSUME ProgramsAssumption ==
    \A p \in Programs : /\ DOMAIN p.imports = p.disk
                        /\ p.broken \subseteq p.disk
                        /\ \A f \in p.disk : p.imports[f] \in Seq([name : STRING, as : Spellings])

VARIABLES
    program,     \* the files on disk, <<name, suffix>>, which of them do not
                 \* compile, and the imports of each
    stack,       \* [id, requested, retry], innermost last
    instances,   \* the modules compiled so far: [file, status]
    modules_,    \* the keys of Env::modules_: <<file, as>>
    runs         \* the files whose code has run, in order

vars == <<program, stack, instances, modules_, runs>>

Entry == <<"native.entry", "">>
Files == program.disk \cup {Entry}
Ready == 0       \* stands for a synthetic module, which is always linked

Frame(id, retry) == [id |-> id, requested |-> <<>>, retry |-> retry]

(* loadEntryModule compiles a module that imports the program's main file.  *)
Init == /\ program \in Programs
        /\ stack = <<Frame(1, FALSE)>>
        /\ instances = <<[file |-> Entry, status |-> "preparing"]>>
        /\ modules_ = {<<Entry, "">>}
        /\ runs = <<>>
-----------------------------------------------------------------------------
(* The imports of a file: a name, and how the path to it is spelled from    *)
(* the importing file's directory (importModule does not normalise it).     *)
Imports(file) == IF file = Entry THEN <<[name |-> Main, as |-> ""]>>
                 ELSE program.imports[file]

(* The paths importModule tries, and the first of them that exists. *)
Candidates(name) == <<<<name, "">>>> \o [i \in DOMAIN ResolveSuffixes |-> <<name, ResolveSuffixes[i]>>]

IsOnDisk(file) == file \in program.disk
Exists(name) == SelectInSeq(Candidates(name), IsOnDisk) # 0
Resolve(name) == Candidates(name)[SelectInSeq(Candidates(name), IsOnDisk)]
IsJson(file) == file[2] = "json"

(* What the name resolves to can be read: V8's CompileModule accepts it.    *)
Loads(name) == Exists(name) /\ Resolve(name) \notin program.broken

Top == Last(stack)
FileOf(id) == instances[id].file
StatusOf(id) == IF id = Ready THEN "evaluated" ELSE instances[id].status

Requests == Imports(FileOf(Top.id))
Asks == stack # <<>> /\ Len(Top.requested) < Len(Requests)
Import == Requests[Len(Top.requested) + 1]

(* The callback gives V8 a module. *)
Returns(frames, id) ==
    IF frames = <<>> THEN <<>>
    ELSE [frames EXCEPT ![Len(frames)].requested = Append(@, id)]

(* Everything that V8 has begun to prepare since it began with id. *)
Become(id, s) ==
    [i \in DOMAIN instances |->
       IF i >= id /\ instances[i].status \in {"preparing", "retried"}
       THEN [instances[i] EXCEPT !.status = s] ELSE instances[i]]

(* V8 gives up the module that was being loaded, with all it had begun to   *)
(* prepare for it; loadModule returns that module nevertheless.             *)
Fails ==
    /\ \E k \in DOMAIN stack :
          /\ ~ stack[k].retry /\ \A j \in k + 1 .. Len(stack) : stack[j].retry
          /\ stack' = Returns(SubSeq(stack, 1, k - 1), stack[k].id)
          /\ instances' = Become(stack[k].id, "unlinked")
    /\ UNCHANGED <<program, runs>>
-----------------------------------------------------------------------------
ImportNative == /\ Asks /\ Import.name = Native
                /\ stack' = Returns(stack, Ready)
                /\ UNCHANGED <<program, instances, modules_, runs>>

(* "Could not resolve import path" *)
ImportMissing == /\ Asks /\ Import.name # Native /\ ~ Exists(Import.name)
                 /\ Fails /\ UNCHANGED modules_

(* "Module ... is empty!": what is found does not compile. *)
ImportBroken == /\ Asks /\ Import.name # Native
                /\ Exists(Import.name) /\ ~ Loads(Import.name)
                /\ Fails /\ UNCHANGED modules_

(* The path is found: a file is loaded. *)
Finds == Asks /\ Import.name # Native /\ Loads(Import.name)
Imported == Resolve(Import.name)
Key == <<Imported, Import.as>>

(* A JSON file is parsed, which makes a module that needs nothing else. *)
Parse(file) == /\ stack' = Returns(stack, Ready)
               /\ runs' = Append(runs, file)
               /\ UNCHANGED <<program, instances>>

(* V8 begins to prepare a new module. *)
Compile(file) ==
    /\ instances' = Append(instances, [file |-> file, status |-> "preparing"])
    /\ stack' = Append(stack, Frame(Len(instances) + 1, FALSE))
    /\ UNCHANGED <<program, runs>>

(* Fault: a path that has been loaded is loaded again. *)
ImportJson_Again == /\ Finds /\ IsJson(Imported)
                    /\ Parse(Imported) /\ modules_' = modules_ \cup {Key}

(* loadJsonModule: a path that has been loaded gives nothing. *)
ImportJson ==
    /\ Finds /\ IsJson(Imported)
    /\ IF Key \in modules_
       THEN Fails /\ UNCHANGED modules_
       ELSE Parse(Imported) /\ modules_' = modules_ \cup {Key}

(* Fault: nothing stops the recursion. *)
ImportModule_Unlimited ==
    /\ Finds /\ ~ IsJson(Imported)
    /\ Compile(Imported) /\ modules_' = modules_ \cup {Key}

(* Fault: a module that has been loaded is not loaded again. *)
ImportModule_Cached ==
    /\ Finds /\ ~ IsJson(Imported)
    /\ IF Len(stack) = StackLimit THEN Fails
       ELSE IF Key \in modules_
       THEN stack' = Returns(stack, Ready) /\ UNCHANGED <<program, instances, runs>>
       ELSE Compile(Imported)
    /\ modules_' = IF Len(stack) = StackLimit THEN modules_ ELSE modules_ \cup {Key}

(* loadModule: a new module each time, whether or not modules_ has its path. *)
(* V8 gives nothing when the stack is full.                                 *)
ImportModule ==
    /\ Finds /\ ~ IsJson(Imported)
    /\ IF Len(stack) = StackLimit
       THEN Fails /\ UNCHANGED modules_
       ELSE Compile(Imported) /\ modules_' = modules_ \cup {Key}

(* V8 has all the imports: one that is not linked is prepared once more, ... *)
Unlinked == {i \in DOMAIN Top.requested : StatusOf(Top.requested[i]) = "unlinked"}

PrepareAgain ==
    /\ stack # <<>> /\ ~ Asks /\ Unlinked # {}
    /\ \E i \in Unlinked :
          LET id == Top.requested[i]
          IN  /\ \A j \in Unlinked : i <= j
              /\ instances' = [instances EXCEPT ![id].status = "retried"]
              /\ stack' = Append(stack, Frame(id, TRUE))
    /\ UNCHANGED <<program, modules_, runs>>

(* Fault: the test of the result of InstantiateModule is the wrong way round. *)
Complete_Inverted ==
    /\ stack # <<>> /\ ~ Asks /\ Unlinked = {}
    /\ IF Top.retry
       THEN stack' = Front(stack) /\ UNCHANGED <<program, instances, runs>>
       ELSE Fails
    /\ UNCHANGED modules_

(* ... or else the module is linked, evaluated and returned. *)
Complete ==
    /\ stack # <<>> /\ ~ Asks /\ Unlinked = {}
    /\ IF Top.retry
       THEN stack' = Front(stack) /\ UNCHANGED <<instances, runs>>
       ELSE /\ instances' = Become(Top.id, "evaluated")
            /\ stack' = Returns(Front(stack), Top.id)
            /\ runs' = Append(runs, FileOf(Top.id))
    /\ UNCHANGED <<program, modules_>>

Next == \/ ImportNative \/ ImportMissing \/ ImportBroken \/ ImportJson \/ ImportModule
        \/ PrepareAgain \/ Complete

(* One thread runs the loader. *)
Spec == Init /\ [][Next]_vars /\ WF_vars(Next)
-----------------------------------------------------------------------------
(* Every variable has its type, and the stack its limit. *)
TypeOK ==
    LET ids == DOMAIN instances
    IN  /\ DOMAIN program.imports = program.disk
        /\ program.broken \subseteq program.disk
        /\ instances \in Seq([file : Files,
                              status : {"preparing", "unlinked", "retried", "evaluated"}])
        /\ stack \in Seq([id : ids, requested : Seq(ids \cup {Ready}), retry : BOOLEAN])
        /\ Len(stack) <= StackLimit
        /\ modules_ \subseteq Files \X Spellings
        /\ runs \in Seq(Files)

(* The tree of imports below a file, which meets a file as often as there   *)
(* are paths to it.  Found: all of it is on disk, compiles and fits on the  *)
(* stack.                                                                   *)
Found[d \in 0 .. StackLimit] ==
    [f \in Files |->
        \A i \in DOMAIN Imports(f) :
            LET name == Imports(f)[i].name
            IN  \/ name = Native
                \/ /\ Loads(name)
                   /\ IsJson(Resolve(name)) \/ (d > 0 /\ Found[d - 1][Resolve(name)])]

(* The keys of the files in it, what is imported before what imports it. *)
Walk[d \in 0 .. StackLimit] ==
    [f \in Files |->
        FlattenSeq([i \in DOMAIN Imports(f) |->
            LET name == Imports(f)[i].name
                file == Resolve(name)
            IN  IF name = Native \/ ~ Loads(name) THEN <<>>
                ELSE (IF IsJson(file) \/ d = 0 THEN <<>> ELSE Walk[d - 1][file])
                     \o <<<<file, Imports(f)[i].as>>>>])]

Depth == StackLimit - 1    \* how far below the entry module
FoundAll == Found[Depth][Entry]
Walked == Walk[Depth][Entry]
NoJsonTwice == \A i, j \in DOMAIN Walked :
                   IsJson(Walked[i][1]) /\ Walked[i] = Walked[j] => i = j

Ran == instances[1].status = "evaluated"

(* The program runs exactly when all its files are found and compile along  *)
(* every path, no cycle of imports runs into the limit of the stack, and no *)
(* JSON file is reached twice by the same spelling of its path.             *)
RunsIfTree ==
    stack = <<>> => (Ran <=> (FoundAll /\ NoJsonTwice))

(* When the program runs, its files have run once for every path that leads *)
(* to them, each after all it imports, in the order of the imports.         *)
RunsInOrder ==
    (stack = <<>> /\ Ran) => runs = [i \in DOMAIN Walked |-> Walked[i][1]] \o <<Entry>>

(* What loading such a program costs: a module for each place of the tree,  *)
(* and one for the entry.  (loadModule keeps every module it makes, and the *)
(* module of an import that fails is made again for each frame above it:    *)
(* nothing is claimed of the time and memory that the other programs take.) *)
IsScript(key) == ~ IsJson(key[1])
Places == Len(SelectSeq(Walked, IsScript))

(* Loading a program of which all is found, and no JSON file twice, comes to *)
(* an end with no module made in vain: nothing is given up and made again.   *)
Starts == stack = <<Frame(1, FALSE)>>
GoodProgramsLoad ==
    (Starts /\ FoundAll /\ NoJsonTwice) ~> (stack = <<>> /\ Len(instances) = Places + 1)
=============================================================================
