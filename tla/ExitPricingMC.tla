------------------------------ MODULE ExitPricingMC ------------------------------
EXTENDS ExitPricing
==================================================================================
