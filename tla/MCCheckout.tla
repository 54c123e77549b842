------------------------------ MODULE MCCheckout ------------------------------
\* A ticket, a bulk order with single-use codes and its extension, and a course
\* purchase.
EXTENDS Checkout

CONSTANTS ticket, bulk, extension, shared, course, u1, u2, u3

MCBuyer == [o \in Orders |-> IF o \in {ticket, course} THEN u1 ELSE u2]

MCKind == [o \in Orders |->
              CASE o = ticket -> "event_registration"
                [] o \in {bulk, shared} -> "bulk_purchase"
                [] o = extension -> "capacity_extension"
                [] OTHER -> "individual_purchase"]

MCBase == [o \in Orders |-> IF o = extension THEN bulk ELSE o]
MCOne == [o \in Orders |-> 1]
===============================================================================
