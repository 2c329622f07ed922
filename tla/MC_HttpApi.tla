----------------------------- MODULE MC_HttpApi ------------------------------
(* Two thermostats, of which one has an outdoor temperature, and a meter; the *)
(* requests reach every branch of every handler, with and without the token.  *)
EXTENDS HttpApi

CONSTANTS t1, t2, meter

MCDevice == {t1, t2, meter}

coolSP == <<"analogValue", 40>>
fan    == <<"binaryOutput", 25>>
power  == <<"analogInput", 1>>

Reg(names, writable, index) ==
    [names |-> names, writable |-> writable, default |-> [n \in writable |-> 0], index |-> index]

MCRegistry ==
    [d \in Device |->
       CASE d = t1 -> Reg({"CoolSP", "Fan", "OutdoorAirTemperature"}, {"CoolSP"},
                          [k \in {coolSP, fan} |-> IF k = coolSP THEN "CoolSP" ELSE "Fan"])
         [] d = t2 -> Reg({"Fan", "OutdoorAirTemperature"}, {}, [k \in {fan} |-> "Fan"])
         [] d = meter -> Reg({"Power"}, {}, [k \in {power} |-> "Power"])]

MCInitValues == [d \in Device |-> [n \in Registry[d].names |-> IF n = "Fan" THEN NoValue ELSE 0]]
MCInitSlots  == [d \in Device |-> [n \in Registry[d].writable |-> WriteSlot(NewPriorityArray, 1, 0)]]

R(route, bearer, body, dev, point, value, prio) ==
    [route |-> route, bearer |-> bearer, body |-> body, dev |-> dev, point |-> point,
     value |-> value, prio |-> prio]

MCRequest ==
    {R("putPoint", b, TRUE, t1, "CoolSP", 1, 1) : b \in BOOLEAN}
    \cup {R("putPoint", TRUE, TRUE, t1, "CoolSP", 0, p) : p \in {0, 2}}
    \cup {R("putPoint", TRUE, FALSE, t1, "CoolSP", 1, 1), R("putPoint", TRUE, TRUE, t2, "Fan", 1, 1),
          R("putPoint", TRUE, TRUE, Null, "CoolSP", 1, 1)}
    \cup {R("getPoint", FALSE, TRUE, t1, n, 0, 0) : n \in {"CoolSP", "Power"}}
    \cup {R("listPoints", FALSE, TRUE, d, "", 0, 0) : d \in {meter, Null}}
    \cup {R("weather", b, TRUE, d, "", 1, 0) : b \in BOOLEAN, d \in {t2, meter, Null}}
    \cup {R("weather", TRUE, FALSE, Null, "", 1, 0)}
    \cup {R("nfWrite", b, TRUE, t1, <<coolSP>>, v, p) : b \in BOOLEAN, v \in {1, Null}, p \in {0, 1}}
    \cup {R("nfWrite", TRUE, TRUE, t1, <<coolSP>>, Unreadable, 1)}
    \cup {R("nfWrite", TRUE, TRUE, t1, <<k>>, 1, 1) : k \in {fan, power, <<"string", 1>>}}
    \cup {R("nfRead", TRUE, TRUE, t1, ks, 0, 0) :
            ks \in {<<coolSP, fan>>, <<fan, power, coolSP>>, <<<<"string", 1>>>>}}
    \cup {R("nfRead", TRUE, FALSE, t1, <<fan>>, 0, 0), R("nfEmpty", TRUE, TRUE, t1, <<fan>>, 0, 0),
          R("nfRead", TRUE, TRUE, Null, <<fan>>, 0, 0)}
=============================================================================
