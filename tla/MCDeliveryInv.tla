---------------------------- MODULE MCDeliveryInv ---------------------------
EXTENDS DeliveryInv, MCDelivery
=============================================================================
