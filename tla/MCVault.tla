------------------------------ MODULE MCVault ------------------------------
EXTENDS Vault

CONSTANTS a, b, x, y

MCBodies == {{<<"name", x>>}, {<<"id", 1>>}}
MCEdited == {<<<<a, "notes">>, <<y, 0>>>>, <<<<b, "notes">>, <<y, 0>>>>}
=============================================================================
