----------------------------- MODULE IpManager ------------------------------
(***************************************************************************)
(* The saved addresses of the Wii's proxy and the menu that selects one    *)
(* (ip_manager.c).  The list is kept in memory, loaded at boot, and the    *)
(* whole file is written again with every change.                          *)
(***************************************************************************)
EXTENDS Addresses, Integers, FiniteSets, SequencesExt

CONSTANTS
  MaxSaved,   \* MAX_SAVED_IPS (10)
  HandLists   \* lists the operator may have put on the card

ASSUME IpManagerAssumption ==
  /\ MaxSaved \in Nat \ {0}
  /\ HandLists \subseteq Seq(Ips)

VARIABLES
  list,       \* g_saved_ips and g_ip_count
  listCard,   \* ips.cfg
  selection,  \* selection, from 0; Len(list) is the entry "Enter new IP"
  wanted,     \* history: how often each address was written or added, and not removed
  dirty       \* history: the last write of the file failed

lists == <<list, listCard, selection, wanted, dirty>>

\* How often each address is in a list.
Times(l) == [ip \in Ips |-> Cardinality({i \in 1 .. Len(l) : l[i] = ip})]

\* ip_manager_load reads no more than fit; an address that is there twice, twice.
Taken(file) == SubSeq(file, 1, IF Len(file) < MaxSaved THEN Len(file) ELSE MaxSaved)

Load ==
  /\ list' = Taken(listCard)
  /\ wanted' = IF dirty THEN Times(Taken(listCard)) ELSE wanted
  /\ dirty' = FALSE
  /\ UNCHANGED <<listCard, selection>>

\* ip_manager_save: the file is written with its closing; or it does not open,
\* or its writing fails or is cut by the power, and it is empty or as before.
NotSaved ==
  /\ listCard' \in {listCard, <<>>}
  /\ dirty' = TRUE

Save == (listCard' = list' /\ dirty' = FALSE) \/ NotSaved

\* Seeded fault: an address in the list is added again.
AppendAgain(ip) ==
  IF Len(list) >= MaxSaved THEN list ELSE Append(list, ip)

Appended(ip) ==
  IF ip \in ToSet(list) \/ Len(list) >= MaxSaved THEN list ELSE Append(list, ip)

\* ip_manager_add_ip, which writes the file if it adds.
AddIp(ip) ==
  /\ list' = Appended(ip)
  /\ wanted' = IF Len(list) < MaxSaved /\ wanted[ip] = 0 THEN [wanted EXCEPT ![ip] = 1] ELSE wanted

Up ==
  /\ selection' = IF selection > 0 THEN selection - 1 ELSE Len(list)
  /\ UNCHANGED <<list, listCard, wanted, dirty>>

\* Seeded fault: the list is taken for one entry longer.
DownTooFar ==
  /\ selection' = IF selection <= Len(list) THEN selection + 1 ELSE 0
  /\ UNCHANGED <<list, listCard, wanted, dirty>>

Down ==
  /\ selection' = IF selection < Len(list) THEN selection + 1 ELSE 0
  /\ UNCHANGED <<list, listCard, wanted, dirty>>

\* A on "Enter new IP", confirmed; saved or not, the address is used.
EnterNew(ip) ==
  /\ selection = Len(list)
  /\ AddIp(ip)
  /\ IF list' = list THEN UNCHANGED <<listCard, dirty>> ELSE Save

\* A on a saved address.
Selected(ip) ==
  /\ selection < Len(list)
  /\ ip = list[selection + 1]
  /\ UNCHANGED <<list, listCard, wanted, dirty>>

RemoveIp ==
  /\ selection < Len(list)
  /\ list' = RemoveAt(list, selection + 1)
  /\ wanted' = [wanted EXCEPT ![list[selection + 1]] = @ - 1]
  /\ selection' = IF selection >= Len(list') /\ selection > 0 THEN selection - 1 ELSE selection
  /\ Save

ListTypeOK ==
  /\ list \in Seq(Ips) /\ Len(list) <= MaxSaved
  /\ listCard \in Seq(Ips)
  /\ selection \in 0 .. Len(list)
  /\ wanted \in [Ips -> Nat]
  /\ dirty \in BOOLEAN
=============================================================================
