--------------------------- MODULE MCAgentInputs ---------------------------
(* AgentInputs with a few tags, files and devices, and the checksum. *)
EXTENDS AgentInputs, ReaderChecksum

EPC1 == <<7>>
EPC2 == <<2, 9>>
SmallFields == {<<>>, <<EPC1>>, <<EPC1, EPC2>>}

\* Complete but for one setting, or with some pair of USB IDs.
Complete  == [s \in Names |-> "word"]
OneOdd    == {[t \in {s} |-> x] @@ Complete : s \in Settings, x \in Texts}
USBPairs  == {[t \in USBIds |-> IF t = "USB_VENDOR_ID" THEN x ELSE y] @@ Complete : x, y \in {"empty", "zero", "one"}}
SmallContents == OneOdd \cup USBPairs
FewFiles  == {{}, Files} \cup {{f} : f \in Files}

OneOfEach == <<[name |-> "wlan0", type |-> "wifi"], [name |-> "wwan0", type |-> "gsm"],
               [name |-> "eth0", type |-> "ethernet"]>>
SomeLinks == {[state |-> "down", address |-> "none"], [state |-> "unmanaged", address |-> "a"],
              [state |-> "connected", address |-> "a"], [state |-> "connected", address |-> "b"]}
=============================================================================
