---------------------------- MODULE MCFileCache ----------------------------
EXTENDS FileCache

CONSTANTS a, b, r1, r2

MCVariantOf == [k \in {a, b} |-> b]

Site(begins, deaths, room, uses, onDisk, traits) ==
    [begins |-> begins, deaths |-> deaths, room |-> 1 .. room,
     minUses |-> uses, maxSize |-> 1, onDisk |-> onDisk,
     lock |-> "lock" \in traits, bypass |-> "bypass" \in traits,
     errors |-> "errors" \in traits, varies |-> "varies" \in traits,
     cold |-> "cold" \in traits]

MCSites == {Site(3, 1, 2, 1, {}, {"lock"}), Site(3, 1, 2, 2, {}, {"lock"}),
            Site(3, 1, 2, 1, {}, {"errors", "bypass"}),
            Site(3, 1, 1, 1, {}, {"varies"}), Site(2, 0, 2, 1, {}, {"lock", "varies"}),
            Site(2, 1, 1, 1, {a}, {"cold"}), Site(1, 0, 1, 1, {a, b}, {"cold", "varies"})}
============================================================================
