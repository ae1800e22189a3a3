------------------------------ MODULE MCFirmwareGateway ------------------------------
EXTENDS FirmwareGateway, TLC
CONSTANTS t1, t2
=======================================================================================
