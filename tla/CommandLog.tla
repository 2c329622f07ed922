----------------------------- MODULE CommandLog -----------------------------
(***************************************************************************)
(* What a point store promises, without slots or a value map: its state is *)
(* the sequence of operations it accepted, and every read is answered from *)
(* that history.  A point shows what the simulation set if that came last, *)
(* and otherwise the latest command at the highest commanded priority.     *)
(***************************************************************************)
EXTENDS Points, Sequences

CONSTANTS Name,         \* names a caller may use, registered or not
          Key,          \* object keys a caller may use
          Registry,     \* the registry NewPointStore built
          InitValues,   \* the present values it left behind
          InitSlots     \* the slots it left behind

VARIABLES log,     \* the accepted operations, oldest first
          call,    \* the last call, with its arguments
          reply    \* what that call returned

NoCall == [op |-> "none"]

Call ==
    [op : {"Write"}, name : Name, value : Value, priority : 0 .. NumSlots + 1]
        \cup [op : {"WriteByKey"}, key : Key, value : Value, priority : 0 .. NumSlots + 1]
        \cup [op : {"SetInternal"}, name : Name, value : Value]
        \cup [op : {"Read"}, name : Name]
        \cup [op : {"ReadByKey"}, key : Key]
        \cup [op : {"ReadAll"}]

Command(n, v, p)  == [op |-> "write", name |-> n, value |-> v, priority |-> p]
Simulated(n, v)   == [op |-> "set", name |-> n, value |-> v, priority |-> 0]

Entry == [op : {"write", "set"}, name : Name, value : Value, priority : 0 .. NumSlots]

CommandsAt(l, n, p) ==
    {i \in 1 .. Len(l) : l[i].op = "write" /\ l[i].name = n /\ l[i].priority = p}
EntriesOf(l, n) == {i \in 1 .. Len(l) : l[i].name = n}

IsLast(S, i) == i \in S /\ \A j \in S : j <= i
Last(S)      == CHOOSE i \in S : IsLast(S, i)

\* The command in force at priority p of point n.
SlotOf(l, n, p) ==
    IF CommandsAt(l, n, p) = {} THEN InitSlots[n][p] ELSE l[Last(CommandsAt(l, n, p))].value

Commanded(l, n) == ActiveValue([p \in Priority |-> SlotOf(l, n, p)], Registry.default[n])

\* The value every reader must see.
Present(l, n) ==
    IF EntriesOf(l, n) = {} THEN InitValues[n]
    ELSE LET e == l[Last(EntriesOf(l, n))]
         IN  IF e.op = "set" THEN e.value ELSE Commanded(l, n)

Init == log = <<>> /\ call = NoCall /\ reply = Ok

Accept(e) == log' = Append(log, e) /\ reply' = Ok
Answer(r) == reply' = r /\ UNCHANGED log

Write(n, v, p) ==
    LET r == WriteReply(Registry, n, p)
    IN  IF r = Ok THEN Accept(Command(n, v, p)) ELSE Answer(r)

SetInternal(n, v) ==
    IF n \in Registry.names THEN Accept(Simulated(n, v)) ELSE Answer(NotFound)

Read(n) == Answer(IF n \in Registry.names THEN Got(Present(log, n)) ELSE NotFound)

ReadAll ==
    Answer(Got([n \in {m \in Registry.names : Present(log, m) # NoValue} |-> Present(log, n)]))

ByKey(c)      == c.op \in {"WriteByKey", "ReadByKey"}
Resolved(c)   == ByKey(c) => c.key \in DOMAIN Registry.index
NameMeant(c)  == IF ByKey(c) THEN Registry.index[c.key] ELSE c.name

\* What call c does and returns: its arguments and the log decide it.
Do(c) ==
    \/ ~Resolved(c) /\ Answer(NotFound)
    \/ /\ Resolved(c)
       /\ \/ c.op \in {"Write", "WriteByKey"} /\ Write(NameMeant(c), c.value, c.priority)
          \/ c.op = "SetInternal" /\ SetInternal(c.name, c.value)
          \/ c.op \in {"Read", "ReadByKey"} /\ Read(NameMeant(c))
          \/ c.op = "ReadAll" /\ ReadAll

Next == call' \in Call /\ Do(call')

Spec == Init /\ [][Next]_<<log, call, reply>>
=============================================================================
