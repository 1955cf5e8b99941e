---------------------------- MODULE MCModuleLoader ----------------------------
EXTENDS ModuleLoader

(* Three modules, a JSON file, a missing file and "native-js".  A file c     *)
(* without a suffix hides c.js.                                              *)
Js == {<<"a", "js">>, <<"b", "js">>, <<"c", "js">>}
Json == <<"j", "json">>
Disks == {Js \cup {Json}, (Js \ {<<"b", "js">>}) \cup {Json, <<"b", "json">>, <<"c", "">>}}

Of(names) == {[name |-> n, as |-> ""] : n \in names}
             \cup IF "j" \in names THEN {[name |-> "j", as |-> "other"]} ELSE {}

(* V8 asks once for each specifier of a module.                              *)
UpTo(n, names) == {s \in UNION {[1 .. k -> Of(names)] : k \in 0 .. n} : IsInjective(s)}

Program(disk, broken, ia, ib, ic) ==
    [disk |-> disk, broken |-> broken,
     imports |-> [f \in disk |-> CASE f[1] = "a" -> ia
                                   [] f[1] = "b" /\ f[2] = "js" -> ib
                                   [] f[1] = "c" -> ic
                                   [] OTHER -> <<>>]]

ImportsOfA == UpTo(2, {"a", "b", "c", "j", "missing", "native-js"})
ImportsOfB == UpTo(2, {"a", "c", "j"})
ImportsOfC == UpTo(1, {"a", "j", "missing"})

(* In some programs c.js does not compile. *)
MCPrograms ==
    {Program(d, {}, ia, ib, ic) :
        d \in Disks, ia \in ImportsOfA, ib \in ImportsOfB, ic \in ImportsOfC}
    \cup {Program(Js \cup {Json}, {<<"c", "js">>}, ia, ib, <<>>) :
            ia \in ImportsOfA, ib \in ImportsOfB}

MCSuffixes == <<"js", "json">>
=============================================================================
