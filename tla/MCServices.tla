----------------------------- MODULE MCServices -----------------------------
(* Shipping with waves, warehouse orders, returns, sessions, billing, serial *)
(* numbers and enterprise operations for TLC: they share no rows, so each    *)
(* mix of operations exercises one of them.                                  *)
EXTENDS Waves, WarehouseOrders, Returns, Sessions, Billing,
        Serials, EnterpriseOps, TLC

servicesVars == <<reqVars, shipVars, waveVars, worderVars, returnVars, sessionVars, billingVars,
                  serialVars, enterpriseVars>>

ServicesTypeOK == /\ ShippingTypeOK /\ WavesTypeOK /\ WorderTypeOK /\ ReturnsTypeOK
                  /\ SessionsTypeOK /\ BillingTypeOK /\ SerialsTypeOK /\ EnterpriseTypeOK

ServicesInit == /\ ReqInit /\ ShippingInit /\ WavesInit /\ WorderInit /\ ReturnsInit
                /\ SessionsInit /\ BillingInit /\ SerialsInit /\ EnterpriseInit

officeVars == <<sessionVars, billingVars, serialVars, enterpriseVars>>
floorVars  == <<shipVars, waveVars, worderVars, returnVars>>

ServicesNext ==
  \/ ShippingStep /\ UNCHANGED <<waveVars, worderVars, returnVars, officeVars>>
  \/ WavesStep    /\ UNCHANGED <<worderVars, returnVars, officeVars>>
  \/ WorderStep   /\ UNCHANGED <<shipVars, waveVars, returnVars, officeVars>>
  \/ ReturnsStep  /\ UNCHANGED <<shipVars, waveVars, worderVars, officeVars>>
  \/ SessionsStep /\ UNCHANGED <<floorVars, billingVars, serialVars, enterpriseVars>>
  \/ BillingStep  /\ UNCHANGED <<floorVars, sessionVars, serialVars, enterpriseVars>>
  \/ SerialsStep  /\ UNCHANGED <<floorVars, sessionVars, billingVars, enterpriseVars>>
  \/ EnterpriseStep /\ UNCHANGED <<floorVars, sessionVars, billingVars, serialVars>>
  \/ \E c \in Client : Abort(c) /\ UNCHANGED <<floorVars, officeVars>>

ServicesSpec == ServicesInit /\ [][ServicesNext]_servicesVars

Mix(S, n) == [mix |-> S, n |-> n]
Mixes == {Mix({"pick", "create", "pack", "stage", "ship"}, 10),
          Mix({"pick", "create", "pack", "stage", "ship", "label", "void", "track"}, 7),
          Mix({"wave", "release", "complete", "task", "create", "pack"}, 7),
          Mix({"wcreate", "wrelease", "wcomplete", "wcancel", "wstart"}, 7),
          Mix({"receive", "inspect"}, 4),
          Mix({"login", "refresh", "revoke"}, 7),
          Mix({"bevent", "storage", "generate", "voidEvent", "invoice"}, 5),
          Mix({"storage", "invoice", "invoiceFinal", "invoiceVoid", "creditNote"}, 6),
          Mix({"serialNew", "serialPick", "serialScan", "serialPack"}, 7),
          Mix({"serialNew", "serialReceive", "serialPick", "serialEdit"}, 5),
          Mix({"command", "claim", "answer"}, 8),
          Mix({"command", "claim", "answer", "subscribe", "replay"}, 6),
          Mix({"job", "yard"}, 4)}
TwoReturned == <<2, 1>>
ServicesSymmetry == Permutations(Client) \cup Permutations(Order) \cup Permutations(BillingEvent)
=============================================================================
