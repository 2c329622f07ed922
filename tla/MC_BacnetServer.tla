-------------------------- MODULE MC_BacnetServer --------------------------
(* Two thermostats that, as in configs/, both have an analogValue 40, for    *)
(* different points; one also has a multi-state value nobody has set.  The   *)
(* requests reach every branch of the handlers, including the identifiers    *)
(* and priorities they refuse.                                               *)
EXTENDS BacnetServer

CONSTANTS schneider, openstat

MCDevice == {schneider, openstat}
MCValue  == {0, 1}
MCWide   == {0, 1, 300}      \* 300 takes two bytes

av40 == <<"analogValue", 40>>
mv7  == <<"multiStateValue", 7>>
mv8  == <<"multiStateValue", 8>>
mo1  == <<"multiStateOutput", 1>>     \* objectTypeMap has no such type
device(d) == <<"device", d>>

MCRegistry ==
    [d \in Device |->
       IF d = schneider
       THEN [names |-> {"CoolSP", "Mode"}, writable |-> {"CoolSP"},
             default |-> [n \in {"CoolSP"} |-> 0],
             index |-> [k \in {av40, mv7} |-> IF k = av40 THEN "CoolSP" ELSE "Mode"]]
       ELSE [names |-> {"StandByOffset", "Code"}, writable |-> {"StandByOffset"},
             default |-> [n \in {"StandByOffset"} |-> 0],
             index |-> [k \in {av40, mv8} |-> IF k = av40 THEN "StandByOffset" ELSE "Code"]]]

MCInitValues == [d \in Device |-> [n \in Registry[d].names |->
                    CASE n = "Mode" -> NoValue [] n = "Code" -> 300 [] OTHER -> 0]]
MCInitSlots  == [d \in Device |->
                   [n \in Registry[d].writable |-> WriteSlot(NewPriorityArray, NumSlots, 0)]]

\* Lengths on both sides of where the header changes.
MCTextLength ==
    [t \in (Device \cup {Null}) \X {av40, mv7, mv8, device(schneider), device(openstat)}
             \X {ObjectName, Description} |->
       CASE t[2] = av40 /\ t[3] = ObjectName  -> IF t[1] = openstat THEN 254 ELSE 4
         [] t[2] = av40 /\ t[3] = Description -> IF t[1] = openstat THEN 253 ELSE 5
         [] OTHER -> 13]

R(svc, obj, props, value, prio, invoke) ==
    [svc |-> svc, obj |-> obj, props |-> props, value |-> value, prio |-> prio, invoke |-> invoke]

Read(svc, obj, props, invoke) == R(svc, obj, props, Absent, Absent, invoke)

Writes ==
    {R("WP", av40, <<85>>, 1, Absent, 1),           \* accepted, at the lowest priority
     R("WP", av40, <<85 + PropertyWidth>>, Absent, 1, 2)}   \* taken for 85; value 0

BadWrites ==
    {R("WP", av40, <<85>>, Null, Absent, 3), R("WP", av40, <<85>>, 1, 0, 4),
     R("WP", mv7, <<85>>, 1, Absent, 5), R("WP", av40, <<77>>, 1, Absent, 6),
     R("WP", mo1, <<85>>, 1, Absent, 7), R("WP", Null, <<85>>, 1, Absent, 8)}

Reads ==
    {Read("RP", av40, <<85>>, 11), Read("RP", mv7, <<85>>, 12), Read("RPM", mv7, <<85, 77, 99>>, 13)}

OtherReads ==
    {Read("RP", av40, <<99>>, 14), Read("RP", <<"analogValue", 9>>, <<85>>, 15),
     Read("RP", mo1, <<85>>, 16), Read("RP", device(schneider), <<77>>, 17),
     Read("RPM", av40, <<75, 77, 28, 79, 117, 111>>, 20), Read("RP", av40, <<77>>, 21),
     Read("RP", mv8, <<85>>, 22), Read("RPM", mv8, <<85>>, 23),
     Read("RPM", device(openstat), <<77, 99>>, 18), Read("RPM", av40, <<>>, 24),
     Read("RP", device(0), <<77>>, 19), Read("RP", Null, <<85>>, 25), Read("RPM", Null, <<85>>, 26)}

Datagrams == {Read("WhoIs", av40, <<85>>, 0), Read("short", av40, <<85>>, 0),
              Read("TimeSync", av40, <<85>>, 0)}

MCRequest     == Writes \cup Reads \cup Datagrams
MCOneByOne    == MCRequest \cup BadWrites \cup OtherReads
=============================================================================
