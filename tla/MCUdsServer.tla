---------------------------- MODULE MCUdsServer ----------------------------
(* Instances of the session and its services for TLC.                      *)
EXTENDS UdsServerProps, UdsServicesProps, TLC

MCStrings   == [HW |-> 9, SW |-> 11, NAME |-> 12]
MCDynIds    == {"F201", "F202", "F301"}
MCPeriodic  == {"F201", "F202"}
Flash       == [first |-> 100, end |-> 300]
Sram        == [first |-> 1000, end |-> 1100]
MCRegions   == {Flash, Sram}
MCPidLength == (0 :> 6) @@ (5 :> 3) @@ (12 :> 4) @@ (13 :> 3)

-----------------------------------------------------------------------------
(* Requests, by service.                                                   *)
Bare(sid, len, sub) ==
    [sid |-> sid, addr |-> "physical", len |-> len, sub |-> sub, quiet |-> FALSE, arg |-> <<>>]
Req(sid, len, sub, arg) == [Bare(sid, len, sub) EXCEPT !.arg = arg]
Quiet(r)     == [r EXCEPT !.quiet = TRUE]
Broadcast(r) == [r EXCEPT !.addr = "functional"]

ToDefault  == Bare("10", 2, 1)
ToExtended == Bare("10", 2, 3)
Seed       == Bare("27", 2, 1)
Key(right) == Req("27", 4, 2, [right |-> right])
Present    == Bare("3E", 2, 0)
Read(did)  == Req("22", 3, 0, [did |-> did])
Write(did, text, len) == Req("2E", len, 0, [did |-> did, text |-> text])
Stop       == Bare("2A", 2, 4)
StopIds(ids)       == Req("2A", 2 + Len(ids), 4, [ids |-> ids])
Start(rate, ids)   == Req("2A", 2 + Len(ids), rate, [ids |-> ids])
Piece(src, pos, size) == [src |-> src, pos |-> pos, size |-> size]
Define(did, recs)  == Req("2C", 4 + 4 * Len(recs), 1, [did |-> did, recs |-> recs])
DefineMem(did, recs) ==
    Req("2C", 5 + 3 * Len(recs), 2, [did |-> did, recs |-> recs, alen |-> 2, slen |-> 1])
Forget(did)        == Req("2C", 4, 3, [did |-> did])
ReadMem(rec)       == Req("23", 5, 0, [alen |-> 2, slen |-> 1, rec |-> rec])

(* Everything that concerns session, timers and security.                  *)
SessionMenu ==
    {ToDefault, Bare("10", 2, 2), ToExtended, Bare("11", 2, 1), Seed, Key(TRUE), Key(FALSE),
     Bare("85", 2, 1), Bare("85", 2, 2), Present, Broadcast(ToDefault),
     Define("F201", <<Piece("HW", 1, 9)>>), Start(1, <<"F201">>), Stop}

Base == {ToDefault, ToExtended, Seed, Key(TRUE)}

(* Definitions of the VIN, which can become shorter, and subscriptions.    *)
DataMenu ==
    Base \cup
    {Write("VIN", 17, 20), Write("VIN", 5, 20), Write("VIN", 5, 8), Write("VIN", 0, 20),
     Define("F201", <<Piece("VIN", 1, 17)>>),
     Define("F201", <<Piece("SW", 3, 4), Piece("VIN", 2, 4), Piece("IO", 1, 1)>>),
     Define("F201", <<Piece("SW", 3, 10)>>), Define("F201", <<Piece("VIN", 1, 0)>>),
     Define("F202", <<Piece("VIN", 10, 8), Piece("NAME", 1, 12)>>),
     Forget("F201"), Quiet(Forget("F202")),
     Start(3, <<"F202", "F201">>), StopIds(<<"F201", "F202">>), Read("F201"), Read("VIN"),
     Req("09", 2, 0, [inf |-> 2])}

(* Memory, and more definitions than places.                               *)
MemoryMenu ==
    Base \cup
    {DefineMem("F201", <<Piece(Memory, 290, 10), Piece(Memory, 1000, 46)>>),
     DefineMem("F201", <<Piece(Memory, 290, 11)>>), DefineMem("F201", <<Piece(Memory, 100, 57)>>),
     DefineMem("F301", <<Piece(Memory, 100, 30), Piece(Memory, 130, 30)>>),
     DefineMem("F301", <<Piece(Memory, 100, 4)>>), DefineMem("F202", <<Piece(Memory, 1099, 1)>>),
     [DefineMem("F202", <<Piece(Memory, 1099, 1)>>) EXCEPT !.len = 9],
     [DefineMem("F202", <<Piece(Memory, 1099, 1)>>) EXCEPT !.arg.alen = 5],
     [DefineMem("F202", <<Piece(Memory, 1099, 1)>>) EXCEPT !.len = 4],
     Forget("F301"), Read("F301"), ReadMem(Piece(Memory, 1037, 63)), ReadMem(Piece(Memory, 1038, 63)),
     ReadMem(Piece(Memory, 100, 64)), [ReadMem(Piece(Memory, 100, 1)) EXCEPT !.len = 4],
     [ReadMem(Piece(Memory, 100, 1)) EXCEPT !.arg.slen = 0], [ReadMem(Piece(Memory, 100, 1)) EXCEPT !.len = 2],
     [Define("F201", <<Piece("HW", 1, 1)>>) EXCEPT !.len = 9], Define("VIN", <<Piece("HW", 1, 1)>>),
     Define("F201", <<Piece("IO", 0, 1)>>), Define("F201", <<Piece("F202", 1, 1)>>),
     Define("F301", <<Piece("HW", 1, 1), Piece("HW", 2, 1), Piece("HW", 3, 1), Piece("HW", 4, 1)>>),
     Bare("2C", 3, 1), Req("2C", 4, 4, [did |-> "F201"]), Start(1, <<>>), Start(5, <<"F201">>),
     Bare("2A", 1, 0), Read("IO"), [Read("VIN") EXCEPT !.len = 2], Write("HW", 9, 12), Write("VIN", 0, 3),
     Start(2, <<"F201", "F202">>), StopIds(<<"F202", "F201">>)}

(* The rest: communication, input and output, routines, faults, OBD-II.    *)
OtherMenu ==
    Base \cup
    {Bare("28", 2, c) : c \in 0..4} \cup
    {Quiet(ToExtended), Bare("10", 2, 4), Bare("10", 1, 0), Bare("11", 2, 2), Bare("11", 1, 0),
     Bare("27", 1, 0), Bare("27", 3, 2), Bare("85", 2, 3), Bare("85", 1, 0),
     Broadcast(Bare("85", 2, 2)), Broadcast(Bare("11", 2, 1)),
     Bare("28", 1, 0), Broadcast(Quiet(Bare("28", 2, 3))), Broadcast(Bare("28", 2, 5)),
     Req("2F", 4, 0, [did |-> "IO", control |-> 0]), Req("2F", 4, 0, [did |-> "IO", control |-> 3]),
     Req("2F", 5, 0, [did |-> "IO", control |-> 3, value |-> 1]),
     Req("2F", 5, 0, [did |-> "IO", control |-> 1, value |-> 0]),
     Req("2F", 5, 0, [did |-> "VIN", control |-> 3, value |-> 0]), Req("2F", 3, 0, <<>>),
     Req("31", 4, 1, [routine |-> "clear"]), Quiet(Req("31", 4, 1, [routine |-> "clear"])),
     Req("31", 4, 1, [routine |-> "test"]), Req("31", 4, 3, [routine |-> "test"]),
     Req("31", 4, 2, [routine |-> "none"]), Bare("31", 3, 1),
     Req("14", 4, 0, [group |-> "all"]), Req("14", 4, 0, [group |-> "one"]), Bare("14", 3, 0),
     Broadcast(Req("14", 4, 0, [group |-> "all"])), Broadcast(Read("VIN")), Broadcast(Present),
     Broadcast(Write("VIN", 5, 20)), Broadcast(Seed), Broadcast(Forget("F201")),
     Broadcast(Bare("04", 1, 0)), Req("19", 3, 2, [n |-> 7]), Req("03", 1, 0, [n |-> 1]),
     Req("07", 1, 0, [n |-> 0]), Req("01", 2, 0, [pid |-> 12]), Req("01", 2, 0, [pid |-> 13]),
     Broadcast(Req("01", 2, 0, [pid |-> 1])), Bare("01", 1, 0), Req("09", 2, 0, [inf |-> 0]),
     Req("09", 2, 0, [inf |-> 4]), Bare("09", 1, 0), Bare("3E", 2, 1), Quiet(Present), Bare("3E", 1, 0),
     Bare("34", 3, 0)}

MCMenus == {SessionMenu, DataMenu, MemoryMenu, OtherMenu}
=============================================================================
