-------------------------------- MODULE Config --------------------------------
(***************************************************************************)
(* What a Config becomes on its way through the FFI boundary: client.go    *)
(* turns it into an artiConfig, JSON carries that to config.rs, and        *)
(* config.rs reads the SOCKS port and the bridges out of it. A nil slice   *)
(* of bridges is an empty one on either side of the boundary.              *)
(***************************************************************************)
EXTENDS Integers

CONSTANTS Lines,     \* bridge lines a caller may give
          Parseable  \* those that parse as a bridge

ASSUME LinesAssumption == Parseable \subseteq Lines

MaxPort == 65535

Configs == [DataDir : {"", "dir"}, SocksPort : Int, Bridges : SUBSET Lines]

\* socks_port in the JSON: a word or the digits of a number.
Word(w)   == [text |-> w]
Number(n) == [text |-> "digits", value |-> n]

AutoPort == [kind |-> "auto"]
Disabled == [kind |-> "disabled"]
Fixed(p) == [kind |-> "fixed", port |-> p]

\* Open
artiConfig(cfg) ==
    [data_directory |-> cfg.DataDir,
     socks_port     |-> IF cfg.SocksPort > 0 THEN Number(cfg.SocksPort) ELSE Word("auto"),
     use_bridges    |-> cfg.Bridges # {},
     bridges        |-> cfg.Bridges]

\* Mutant: digits are cast to 16 bits instead of parsed as such.
CastPort(t) == IF t.text # "digits" THEN AutoPort
               ELSE IF t.value % (MaxPort + 1) = 0 THEN AutoPort ELSE Fixed(t.value % (MaxPort + 1))

\* SocksPort::deserialize. What is not a u16 disables the listener.
SocksPort(t) ==
    IF t = Word("auto") THEN AutoPort
    ELSE IF t.text # "digits" THEN Disabled
    ELSE IF t.value = 0 THEN AutoPort
    ELSE IF t.value \in 1..MaxPort THEN Fixed(t.value) ELSE Disabled

\* The bridges that to_tor_client_config enables; none means a direct client.
BridgesOf(a) == IF a.use_bridges THEN a.bridges ELSE {}

\* Mutant: a line that does not parse is skipped.
AcceptsSome(a) == a.data_directory # "" /\ (BridgesOf(a) = {} \/ BridgesOf(a) \intersect Parseable # {})

\* Config::from_json and to_tor_client_config succeed.
Accepts(a) == a.data_directory # "" /\ BridgesOf(a) \subseteq Parseable
=============================================================================
